---- MODULE Spec2Model ----
(***************************************************************************)
(* rpip: resumable package installer (src/rpip/main.py).                   *)
(*                                                                         *)
(* The model follows one run of main(): backend selection, then for each   *)
(* package resolve_package, download_resumable (download_with_python or an *)
(* external tool), verify_file_hash, install_package and cleanup, in the   *)
(* single-package path and in the requirements-file batch loop.  The file  *)
(* system survives the process: Rerun is the operator running the same     *)
(* command again.                                                          *)
(*                                                                         *)
(* Spec       one run of main() and its re-runs                            *)
(* SpecResume download_with_python repeated against a range-honouring      *)
(*            server, under weak fairness                                  *)
(* SpecUnit   verify_file_hash and check_downloader called on their own    *)
(*                                                                         *)
(* Strings are sequences of tokens, files are byte sequences, the remote   *)
(* resource is the fixed byte sequence Remote.                             *)
(***************************************************************************)
EXTENDS Integers, Sequences, FiniteSets, TLC

\* ------------------------------------------------------------ bounds
\* length T of the remote resource
RemoteLen == 3
\* longest file content given to verify_file_hash when it is called on its own
MaxContentLen == 2
\* bytes per response.read(chunk_size) call, chunk_size scaled down from 8192
ChunkBytes == 2
\* packages of a requirements file
MaxPkgs == 2
\* invocations of download_with_python whose result is remembered when it is repeated
MaxHistory == 2
\* lines of the top-level requirements file
MaxLines == 3
\* calls of parse_requirements_file on the stack before the interpreter gives up
RecursionLimit == 3

Bytes == {0, 1}

Min(a, b) == IF a < b THEN a ELSE b

\* the remote resource served for every package: 1,0,1,0,...
Remote == [i \in 1..RemoteLen |-> i % 2]

\* a pre-existing local file may be longer than the remote resource
MaxFileLen == RemoteLen + 1

NoFile == [exists |-> FALSE, data |-> <<>>]
FileOf(bytes) == [exists |-> TRUE, data |-> bytes]

ByteSeqs(n) == UNION {[1..k -> Bytes] : k \in 0..n}
AllFiles == {NoFile} \cup {FileOf(s) : s \in ByteSeqs(MaxFileLen)}

IsPrefix(s, t) == Len(s) <= Len(t) /\ SubSeq(t, 1, Len(s)) = s
Take(s, n) == SubSeq(s, 1, Min(n, Len(s)))
Drop(s, n) == SubSeq(s, Min(n, Len(s)) + 1, Len(s))

\* a full-length file whose content differs from the remote resource
Corrupt == [i \in 1..RemoteLen |-> 1 - Remote[i]]

\* files a batch run may find for a package: none, a partial download, a corrupt one
BatchInitFiles == {NoFile, FileOf(Take(Remote, 1)), FileOf(Corrupt)}

\* ------------------------------------------------------------ backend selection
ExternalTools == {"aria2c", "wget", "curl"}
DOWNLOADER_PREFERENCE == <<"aria2c", "wget", "curl", "python">>

RECURSIVE check_from(_, _)
check_from(i, present) ==
    IF i > Len(DOWNLOADER_PREFERENCE) THEN "python"
    ELSE IF DOWNLOADER_PREFERENCE[i] = "python" THEN "python"
    ELSE IF DOWNLOADER_PREFERENCE[i] \in present THEN DOWNLOADER_PREFERENCE[i]
    ELSE check_from(i + 1, present)

\* mutant: the tools are probed in the opposite order
check_downloader_reversed(present) ==
    IF "curl" \in present THEN "curl"
    ELSE IF "wget" \in present THEN "wget"
    ELSE IF "aria2c" \in present THEN "aria2c" ELSE "python"

\* shutil.which(tool) succeeds exactly for the tools in `present`
check_downloader(present) == check_from(1, present)

\* ------------------------------------------------------------ integrity verifier
SupportedAlgorithms == {<<"sha256">>, <<"sha512">>, <<"md5">>}

AlgTag(algorithm) ==
    IF algorithm = <<"sha256">> THEN "2"
    ELSE IF algorithm = <<"sha512">> THEN "5" ELSE "d"

\* hasher.hexdigest(): an ideal (collision-free) digest, lower-case hex tokens
hexdigest(algorithm, data) ==
    <<AlgTag(algorithm)>> \o [i \in 1..Len(data) |-> IF data[i] = 0 THEN "a" ELSE "b"]

HasEq(s) == \E i \in 1..Len(s) : s[i] = "="
FirstEq(s) == CHOOSE i \in 1..Len(s) : s[i] = "=" /\ \A j \in 1..(i - 1) : s[j] /= "="

\* mutant: the algorithm prefix is ignored
algorithm_of_sha256(expected_hash) == <<"sha256">>

\* expected_hash.split('=', 1), or the sha256 default
algorithm_of(expected_hash) ==
    IF HasEq(expected_hash) THEN SubSeq(expected_hash, 1, FirstEq(expected_hash) - 1)
    ELSE <<"sha256">>
hash_value_of(expected_hash) ==
    IF HasEq(expected_hash)
    THEN SubSeq(expected_hash, FirstEq(expected_hash) + 1, Len(expected_hash))
    ELSE expected_hash

\* None and '' are both the empty sequence
NoHash == <<>>

\* mutant: the file is opened before the algorithm is looked at
verify_outcome_file_first(f, expected_hash) ==
    IF expected_hash = NoHash THEN "skipped"
    ELSE IF ~f.exists THEN "notfound"
    ELSE IF algorithm_of(expected_hash) \notin SupportedAlgorithms THEN "unsupported"
    ELSE IF hexdigest(algorithm_of(expected_hash), f.data) = hash_value_of(expected_hash)
         THEN "verified"
         ELSE "mismatch"

\* lines 210-254: the outcome verify_file_hash reports on stdout / stderr
verify_outcome(f, expected_hash) ==
    IF expected_hash = NoHash THEN "skipped"
    ELSE IF algorithm_of(expected_hash) \notin SupportedAlgorithms THEN "unsupported"
    ELSE IF ~f.exists THEN "notfound"
    ELSE IF hexdigest(algorithm_of(expected_hash), f.data) = hash_value_of(expected_hash)
         THEN "verified"
         ELSE "mismatch"

\* the boolean verify_file_hash returns
verify_file_hash(f, expected_hash) ==
    verify_outcome(f, expected_hash) \in {"skipped", "unsupported", "verified"}

\* inputs of verify_file_hash called on its own: file contents, their digests, digests
\* with one character replaced, digests spelled in upper case
UnitFiles == {NoFile} \cup {FileOf(s) : s \in ByteSeqs(MaxContentLen)}
HexTokens == {"2", "5", "d", "a", "b"}
Upper(s) ==
    [i \in 1..Len(s) |-> IF s[i] = "a" THEN "A"
                         ELSE IF s[i] = "b" THEN "B"
                         ELSE IF s[i] = "d" THEN "D" ELSE s[i]]
Lower(s) ==
    [i \in 1..Len(s) |-> IF s[i] = "A" THEN "a"
                         ELSE IF s[i] = "B" THEN "b"
                         ELSE IF s[i] = "D" THEN "d" ELSE s[i]]
Digests == {hexdigest(a, d) : a \in SupportedAlgorithms, d \in ByteSeqs(MaxContentLen)}
Flips(h) == {[h EXCEPT ![i] = t] : i \in 1..Len(h), t \in HexTokens}
LowerValues == UNION {Flips(h) : h \in Digests}
HexValues == LowerValues \cup {Upper(h) : h \in Digests}
AlgorithmNames == SupportedAlgorithms \cup {<<"foo">>, <<"SHA256">>, <<>>}
ExpectedHashes ==
    {NoHash, <<"foo", "=", "b", "a">>} \cup HexValues
        \cup {a \o <<"=">> \o h : a \in AlgorithmNames, h \in HexValues}

\* the digests the resolver may report for a package
GoodHash == <<"sha256", "=">> \o hexdigest(<<"sha256">>, Remote)
BadHash == <<"sha256", "=">> \o hexdigest(<<"sha256">>, Corrupt)
FooHash == <<"foo", "=", "b", "a">>
ResolverHashes == {NoHash, GoodHash, BadHash, FooHash}

\* ------------------------------------------------------------ state
VARIABLES
    disk,              \* package -> its target file
    target,            \* FALSE: the command line names no package and no file
    batch,             \* TRUE: requirements file, FALSE: single package
    packages,          \* number of packages to install
    pc,                \* control point of main
    idx,               \* package being processed
    downloader,        \* result of check_downloader
    file_hash,         \* expected digest reported by resolve_package
    dl,                \* locals of the running download
    success,           \* last result of install_single_package / install_package
    successful_count,
    failed_packages,
    exit_code,         \* -1 while the process runs
    before,            \* history: the file when the download was invoked
    truncated,         \* history: an existing file was opened in 'wb' mode
    calls,             \* history: collaborators invoked for the current package
    verdict,           \* history: outcome of verify_file_hash for the current package
    deleted,           \* history: os.remove removed the current package's file
    results,           \* history: result of each finished package
    attempts,          \* history: packages the batch loop started, in order
    exitVia,           \* history: what ended the process
    unit,              \* a function called on its own: its arguments and its result
    report,            \* history: what pip's dry run gave resolve_package
    first              \* history: how the same flow ended on a terminal

vars == <<disk, target, batch, packages, pc, idx, downloader, file_hash, dl, success,
          successful_count, failed_packages, exit_code,
          before, truncated, calls, verdict, deleted, results, attempts, exitVia, unit,
          report, first>>

inputs == <<target, batch, packages, unit, first>>
args == <<target, batch, packages, unit, first, report>>
counters == <<successful_count, failed_packages, results, attempts>>
pkghist == <<before, truncated, calls, verdict, deleted>>

DlIdle == [resume_pos |-> 0, mode |-> "none", total_size |-> 0, downloaded |-> 0,
           body |-> <<>>, range |-> FALSE, reply |-> "none", outcome |-> "none",
           interactive |-> FALSE, cr |-> FALSE,
           range_start |-> 0, requests |-> 0, written |-> <<>>,
           out |-> <<>>, cmd |-> <<>>]

Cur == disk[idx]

\* ------------------------------------------------------------ text
\* a str is the sequence of its characters
Whitespace == {" ", "\t"}
startswith(s, prefix) == IsPrefix(prefix, s)

RECURSIVE lstrip(_)
lstrip(s) == IF s /= <<>> /\ Head(s) \in Whitespace THEN lstrip(Tail(s)) ELSE s

RECURSIVE rstrip(_)
rstrip(s) ==
    IF s /= <<>> /\ s[Len(s)] \in Whitespace THEN rstrip(SubSeq(s, 1, Len(s) - 1)) ELSE s

\* str.strip()
strip(s) == rstrip(lstrip(s))

Contains(s, c) == \E i \in 1..Len(s) : s[i] = c

DashE == <<"-", "e", " ">>
DashDashEditable == <<"-", "-", "e", "d", "i", "t", "a", "b", "l", "e">>

\* ------------------------------------------------------------ editable installs
\* is_editable_install, line 361
is_editable_install(package_spec) ==
    startswith(package_spec, DashE) \/ startswith(package_spec, DashDashEditable)

\* install_editable_package lines 368-375: editable_spec
editable_spec_of(package_spec) ==
    IF startswith(package_spec, DashE) THEN strip(Drop(package_spec, 3))
    ELSE IF startswith(package_spec, DashDashEditable \o <<" ">>)
    THEN strip(Drop(package_spec, 11))
    ELSE IF startswith(package_spec, DashDashEditable \o <<"=">>)
    THEN strip(Drop(package_spec, 11))
    ELSE package_spec

\* install_editable_package line 380: the arguments after `python -m pip install`
NoCmd == [flag |-> "none", source |-> <<>>, options |-> <<>>]
editable_cmd(package_spec, install_args) ==
    [flag |-> "-e", source |-> editable_spec_of(package_spec), options |-> install_args]

\* the specifications install_single_package is called with
PackageSpecs ==
    {<<"p">>,
     <<"-", "e">>,
     <<"-", "e", "\t", "p">>,
     DashE \o <<"p">>,
     DashE \o <<" ", "p">>,
     DashDashEditable,
     DashDashEditable \o <<" ", "p">>,
     DashDashEditable \o <<"=", "p">>,
     DashDashEditable \o <<"\t", "p">>}
InstallArgs == {<<>>, <<"--user">>, <<"--user", "--no-deps">>}

\* ------------------------------------------------------------ requirements files
\* lines 293-297
PRESERVED_OPTIONS ==
    {<<"-", "-", "i", "n", "d", "e", "x", "-", "u", "r", "l">>,
     <<"-", "-", "e", "x", "t", "r", "a", "-", "i", "n", "d", "e", "x", "-", "u", "r", "l">>,
     <<"-", "-", "t", "r", "u", "s", "t", "e", "d", "-", "h", "o", "s", "t">>,
     <<"-", "-", "f", "i", "n", "d", "-", "l", "i", "n", "k", "s">>,
     <<"-", "-", "n", "o", "-", "i", "n", "d", "e", "x">>,
     <<"-", "-", "p", "r", "e", "f", "e", "r", "-", "b", "i", "n", "a", "r", "y">>,
     <<"-", "-", "p", "r", "e">>,
     <<"-", "-", "n", "o", "-", "b", "i", "n", "a", "r", "y">>,
     <<"-", "-", "o", "n", "l", "y", "-", "b", "i", "n", "a", "r", "y">>}
DashDashRequirement == <<"-", "-", "r", "e", "q", "u", "i", "r", "e", "m", "e", "n", "t">>

\* the requirements files of a directory, by name; a name outside the directory's
\* listing does not exist
TopName == <<"t">>
NestedName == <<"a">>
Names == {TopName, NestedName}
NoFS == [n \in Names |-> [exists |-> FALSE, lines |-> <<>>]]
Exists(fs, n) == n \in DOMAIN fs /\ fs[n].exists

\* str.index(' #'): the position of the first " #", 0 when there is none
RECURSIVE SpaceHashFrom(_, _)
SpaceHashFrom(s, i) ==
    IF i >= Len(s) THEN 0
    ELSE IF s[i] = " " /\ s[i + 1] = "#" THEN i
    ELSE SpaceHashFrom(s, i + 1)
SpaceHash(s) == SpaceHashFrom(s, 1)

\* line.split(None, 1)[1]: what follows the first run of white space
RECURSIVE AfterToken(_)
AfterToken(s) ==
    IF s = <<>> THEN <<>>
    ELSE IF Head(s) \in Whitespace THEN lstrip(s)
    ELSE AfterToken(Tail(s))

\* line 318
nested_file_of(line) ==
    IF Contains(line, " ") THEN AfterToken(line) ELSE strip(Drop(line, 2))

\* what a call returns (packages, pip_options) or raises; warnings are the nested
\* files reported as not found
Parsed(pkgs, opts, warnings) ==
    [raised |-> "none", packages |-> pkgs, pip_options |-> opts, warnings |-> warnings]
Raised(kind) ==
    [raised |-> kind, packages |-> <<>>, pip_options |-> <<>>, warnings |-> <<>>]
NoParse == Raised("pending")

\* mutant: a file entered again contributes nothing
RecursionError_ignored == Parsed(<<>>, <<>>, <<>>)

\* the interpreter's recursion limit is reached: RecursionError, which line 354 turns
\* into RuntimeError("Error reading requirements file")
RecursionError == Raised("error_reading")

\* mutant: the nested packages are put in front
include_in_front(acc, nested) ==
    [acc EXCEPT !.packages = nested.packages \o acc.packages,
                !.pip_options = nested.pip_options \o acc.pip_options,
                !.warnings = acc.warnings \o nested.warnings]

\* lines 322-324: extend with what the nested file gave
include(acc, nested) ==
    [acc EXCEPT !.packages = acc.packages \o nested.packages,
                !.pip_options = acc.pip_options \o nested.pip_options,
                !.warnings = acc.warnings \o nested.warnings]

\* lines 303-314: the line once stripped and cut at an inline comment
comment_cut(raw) ==
    LET stripped == strip(raw)
        k == SpaceHash(stripped)
    IN  IF k > 0 THEN strip(SubSeq(stripped, 1, k - 1)) ELSE stripped

\* lines 306-314: the line is skipped as blank or as a comment
skipped(raw) ==
    LET stripped == strip(raw)
    IN  stripped = <<>> \/ (SpaceHash(stripped) = 0 /\ startswith(stripped, <<"#">>))

RECURSIVE parse_requirements_file(_, _, _)
RECURSIVE parse_lines(_, _, _, _)

\* lines 301-350: one iteration of the loop over the lines
process_line(fs, raw, acc, depth) ==
    LET line == comment_cut(raw)
    IN  IF skipped(raw) THEN acc
        ELSE IF startswith(line, <<"-", "r">>) \/ startswith(line, DashDashRequirement)
        THEN LET nested_file == nested_file_of(line)
             IN  IF Exists(fs, nested_file)
                 THEN LET nested == parse_requirements_file(fs, nested_file, depth + 1)
                      IN  IF nested.raised /= "none" THEN Raised("error_reading")
                          ELSE include(acc, nested)
                 ELSE [acc EXCEPT !.warnings = Append(@, nested_file)]
        ELSE IF startswith(line, DashE) \/ startswith(line, DashDashEditable)
        THEN [acc EXCEPT !.packages = Append(@, line)]
        ELSE IF \E opt \in PRESERVED_OPTIONS : startswith(line, opt)
        THEN [acc EXCEPT !.pip_options = Append(@, line)]
        ELSE IF startswith(line, <<"-">>) THEN acc
        ELSE [acc EXCEPT !.packages = Append(@, line)]

parse_lines(fs, lines, acc, depth) ==
    IF lines = <<>> THEN acc
    ELSE LET r == process_line(fs, Head(lines), acc, depth)
         IN  IF r.raised /= "none" THEN r ELSE parse_lines(fs, Tail(lines), r, depth)

\* lines 281-357; depth is the number of calls on the stack
parse_requirements_file(fs, filepath, depth) ==
    IF depth > RecursionLimit THEN RecursionError
    ELSE IF ~Exists(fs, filepath) THEN Raised("not_found")
    ELSE parse_lines(fs, fs[filepath].lines, Parsed(<<>>, <<>>, <<>>), depth)

\* the lines the files are written with
OrderLines ==
    {<<"p">>,
     <<"q">>,
     <<"-", "r", " ", "a">>,
     <<"-", "r", " ", "t">>,
     <<"-", "r", " ", "m">>,
     <<"-", "-", "p", "r", "e">>}
ClassLines ==
    {<<>>,
     <<" ">>,
     <<"#", "c">>,
     <<"p", " ", "#", "c">>,
     <<"#", " ", "a", " ", "#", "b">>,
     <<" ", "p", " ">>,
     <<"p", "#", "c">>,
     <<"-", "e", " ", "p">>,
     <<"-", "e", " ", "p", " ", "#", "c">>,
     <<"-", "-", "e", "d", "i", "t", "a", "b", "l", "e", "=", "p">>,
     <<"-", "-", "e", "d", "i", "t", "a", "b", "l", "e", "\t", "p">>,
     <<"-", "e", "\t", "p">>,
     <<"-", "x">>,
     <<"-", "x", " ", "#", "c">>,
     <<"-", "-", "p", "r", "e", " ", "#", "c">>,
     <<"-", "r", "a">>,
     <<"-", "-", "r", "e", "q", "u", "i", "r", "e", "m", "e", "n", "t", " ", "a">>,
     <<"-", "r", "\t", "a">>,
     <<"-", "-", "i", "n", "d", "e", "x", "-", "u", "r", "l">>,
     <<"-", "-", "e", "x", "t", "r", "a", "-", "i", "n", "d", "e", "x", "-", "u", "r", "l">>,
     <<"-", "-", "t", "r", "u", "s", "t", "e", "d", "-", "h", "o", "s", "t">>,
     <<"-", "-", "f", "i", "n", "d", "-", "l", "i", "n", "k", "s">>,
     <<"-", "-", "n", "o", "-", "i", "n", "d", "e", "x">>,
     <<"-", "-", "p", "r", "e", "f", "e", "r", "-", "b", "i", "n", "a", "r", "y">>,
     <<"-", "-", "p", "r", "e">>,
     <<"-", "-", "n", "o", "-", "b", "i", "n", "a", "r", "y">>,
     <<"-", "-", "o", "n", "l", "y", "-", "b", "i", "n", "a", "r", "y">>}
NestedContents ==
    {<<>>,
     <<<<"x">>>>,
     <<<<"x">>, <<"-", "-", "n", "o", "-", "i", "n", "d", "e", "x">>>>,
     <<<<"-", "r", " ", "t">>>>,
     <<<<"x">>, <<"-", "r", " ", "a">>>>}

RECURSIVE SeqsUpTo(_, _)
SeqsUpTo(n, S) ==
    IF n = 0 THEN {<<>>}
    ELSE LET shorter == SeqsUpTo(n - 1, S)
         IN  shorter \cup {Append(s, x) : s \in {s \in shorter : Len(s) = n - 1}, x \in S}
TopContents == SeqsUpTo(MaxLines, OrderLines) \cup {<<l>> : l \in ClassLines}

FileSystems ==
    {[n \in Names |-> IF n = TopName THEN top ELSE nested] :
        top \in {[exists |-> FALSE, lines |-> <<>>]}
                   \cup {[exists |-> TRUE, lines |-> c] : c \in TopContents},
        nested \in {[exists |-> FALSE, lines |-> <<>>]}
                   \cup {[exists |-> TRUE, lines |-> c] : c \in NestedContents}}

UnitIdle == [fn |-> "none", file |-> NoFile, expected |-> NoHash, present |-> {},
             out |-> "none", ret |-> FALSE,
             spec |-> <<>>, install_args |-> <<>>, status |-> 0, cmd |-> NoCmd,
             called |-> {}, fs |-> NoFS, parsed |-> NoParse]

\* the dry run of pip as resolve_package sees it: the exit status, whether stdout
\* holds a '{' and a '}', whether the text between them is JSON, and what the report
\* holds under "install", "download_info" and "url"
OkReport == [returncode |-> 0, open |-> TRUE, close |-> TRUE, json |-> TRUE,
             install |-> "one", download_info |-> TRUE, url |-> TRUE]
Reports ==
    {OkReport,
     [OkReport EXCEPT !.returncode = 1],
     [OkReport EXCEPT !.open = FALSE],
     [OkReport EXCEPT !.close = FALSE],
     [OkReport EXCEPT !.json = FALSE],
     [OkReport EXCEPT !.install = "missing"],
     [OkReport EXCEPT !.install = "empty"],
     [OkReport EXCEPT !.install = "null"],
     [OkReport EXCEPT !.download_info = FALSE],
     [OkReport EXCEPT !.url = FALSE]}
NoReport == [OkReport EXCEPT !.returncode = -1]

\* mutant: a report without a download URL is accepted
resolve_package_lenient(r) ==
    IF r.returncode /= 0 THEN "RuntimeError"
    ELSE IF ~r.open \/ ~r.close THEN "RuntimeError"
    ELSE IF ~r.json THEN "RuntimeError"
    ELSE IF r.install \in {"missing", "empty"} THEN "RuntimeError"
    ELSE IF r.install = "null" THEN "TypeError"
    ELSE IF ~r.download_info THEN "RuntimeError"
    ELSE "ok"

\* resolve_package lines 47-79: what the call raises, "ok" when it returns
resolve_package(r) ==
    IF r.returncode /= 0 THEN "RuntimeError"
    ELSE IF ~r.open \/ ~r.close THEN "RuntimeError"
    ELSE IF ~r.json THEN "RuntimeError"
    ELSE IF r.install \in {"missing", "empty"} THEN "RuntimeError"
    ELSE IF r.install = "null" THEN "TypeError"
    ELSE IF ~r.download_info THEN "RuntimeError"
    ELSE IF ~r.url THEN "RuntimeError"
    ELSE "ok"

\* nothing has run on a terminal yet
NoRun == [file |-> NoFile, dl |-> DlIdle, calls |-> <<>>, verdict |-> "none",
          success |-> FALSE, deleted |-> FALSE, exit_code |-> -1, exitVia |-> "none"]

\* the state of main before its first statement
InitLocals ==
    /\ pc = "start"
    /\ idx = 1
    /\ downloader = "none"
    /\ file_hash = NoHash
    /\ dl = DlIdle
    /\ success = FALSE
    /\ successful_count = 0
    /\ failed_packages = <<>>
    /\ exit_code = -1
    /\ before = NoFile
    /\ truncated = FALSE
    /\ calls = <<>>
    /\ verdict = "none"
    /\ deleted = FALSE
    /\ results = <<>>
    /\ attempts = <<>>
    /\ exitVia = "none"

Init ==
    /\ target \in BOOLEAN
    /\ batch \in (IF target THEN BOOLEAN ELSE {FALSE})
    /\ packages \in (IF batch THEN 0..MaxPkgs ELSE {1})
    /\ disk \in [1..MaxPkgs -> AllFiles]
    /\ \A p \in 1..MaxPkgs :
          /\ (p > packages \/ ~target) => disk[p] = NoFile
          /\ batch => disk[p] \in BatchInitFiles
    /\ InitLocals
    /\ unit = UnitIdle
    /\ report = NoReport
    /\ first = NoRun

\* ------------------------------------------------------------ process exits
\* sys.exit(code), or main returning (code 0)
Exit(code, via) ==
    /\ pc' = "exited"
    /\ exit_code' = code
    /\ exitVia' = via

\* install_single_package returns r to the batch loop
Return(r) ==
    /\ pc' = "pkg_done"
    /\ success' = r
    /\ UNCHANGED <<exit_code, exitVia>>

\* ------------------------------------------------------------ main: start, batch loop
\* main lines 452-454: neither a target nor -r: print_help and sys.exit(1)
NoTarget ==
    /\ pc = "start"
    /\ ~target
    /\ Exit(1, "no_target")
    /\ UNCHANGED <<disk, args, idx, downloader, file_hash, dl, success, counters, pkghist>>

\* main lines 456-467: check_downloader; a requirements file without packages exits 0
MainStart ==
    /\ pc = "start"
    /\ target
    /\ \E present \in SUBSET ExternalTools : downloader' = check_downloader(present)
    /\ IF batch /\ packages = 0
       THEN Exit(0, "no_packages")
       ELSE /\ pc' = (IF batch THEN "loop" ELSE "resolve")
            /\ UNCHANGED <<exit_code, exitVia>>
    /\ UNCHANGED <<disk, args, idx, file_hash, dl, success, counters, pkghist>>

\* main lines 481-486: the loop calls install_single_package for the next package
BatchNext ==
    /\ pc = "loop"
    /\ idx <= packages
    /\ pc' = "resolve"
    /\ file_hash' = NoHash
    /\ dl' = DlIdle
    /\ before' = NoFile
    /\ truncated' = FALSE
    /\ calls' = <<>>
    /\ verdict' = "none"
    /\ deleted' = FALSE
    /\ attempts' = Append(attempts, idx)
    /\ report' = NoReport
    /\ UNCHANGED <<disk, inputs, idx, downloader, success, successful_count, failed_packages,
                   results, exit_code, exitVia>>

\* mutant: a failed package is listed and counted as installed too
BatchRecord_miscounted ==
    /\ pc = "pkg_done"
    /\ successful_count' = successful_count + 1
    /\ failed_packages' = (IF success THEN failed_packages
                           ELSE Append(failed_packages, idx))
    /\ results' = Append(results, success)
    /\ UNCHANGED attempts
    /\ idx' = idx + 1
    /\ pc' = "loop"
    /\ UNCHANGED <<disk, args, downloader, file_hash, dl, success, exit_code, exitVia,
                   pkghist>>

\* mutant: a failed package is started again
BatchRecord_again ==
    /\ pc = "pkg_done"
    /\ IF success
       THEN successful_count' = successful_count + 1 /\ UNCHANGED failed_packages
       ELSE failed_packages' = Append(failed_packages, idx) /\ UNCHANGED successful_count
    /\ results' = Append(results, success)
    /\ UNCHANGED attempts
    /\ idx' = (IF success THEN idx + 1 ELSE idx)
    /\ pc' = "loop"
    /\ UNCHANGED <<disk, args, downloader, file_hash, dl, success, exit_code, exitVia,
                   pkghist>>

\* main lines 486-491: count the result of install_single_package
BatchRecord ==
    /\ pc = "pkg_done"
    /\ IF success
       THEN successful_count' = successful_count + 1 /\ UNCHANGED failed_packages
       ELSE failed_packages' = Append(failed_packages, idx) /\ UNCHANGED successful_count
    /\ results' = Append(results, success)
    /\ UNCHANGED attempts
    /\ idx' = idx + 1
    /\ pc' = "loop"
    /\ UNCHANGED <<disk, args, downloader, file_hash, dl, success, exit_code, exitVia,
                   pkghist>>

\* mutant: the summary never exits with a failure code
Summary_exit0 ==
    /\ pc = "loop"
    /\ idx > packages
    /\ Exit(0, "summary")
    /\ UNCHANGED <<disk, args, idx, downloader, file_hash, dl, success, counters, pkghist>>

\* main lines 493-505: the summary; sys.exit(1) when a package failed
Summary ==
    /\ pc = "loop"
    /\ idx > packages
    /\ IF failed_packages /= <<>> THEN Exit(1, "summary") ELSE Exit(0, "summary")
    /\ UNCHANGED <<disk, args, idx, downloader, file_hash, dl, success, counters, pkghist>>

\* ------------------------------------------------------------ resolve_package
\* resolve_package returns (url, filename, file_hash)
ResolveOk ==
    /\ pc = "resolve"
    /\ \E r \in Reports : resolve_package(r) = "ok" /\ report' = r
    /\ \E h \in ResolverHashes : file_hash' = h
    /\ calls' = Append(calls, "resolve")
    /\ pc' = "download"
    /\ UNCHANGED <<disk, inputs, idx, downloader, dl, success, counters, exit_code, exitVia,
                   before, truncated, verdict, deleted>>

\* resolve_package raises RuntimeError: caught by install_single_package (418-420)
\* in a batch, by main (535-537) for a single package
ResolveFails ==
    /\ pc = "resolve"
    /\ \E r \in Reports : resolve_package(r) = "RuntimeError" /\ report' = r
    /\ calls' = Append(calls, "resolve")
    /\ IF batch THEN Return(FALSE) ELSE Exit(1, "resolution") /\ UNCHANGED success
    /\ UNCHANGED <<disk, inputs, idx, downloader, file_hash, dl, counters,
                   before, truncated, verdict, deleted>>

\* an exception that is neither RuntimeError nor OSError (a TypeError on a malformed
\* report): install_single_package does not catch it, main's except Exception does
ResolveUnexpected ==
    /\ pc = "resolve"
    /\ \E r \in Reports : resolve_package(r) = "TypeError" /\ report' = r
    /\ calls' = Append(calls, "resolve")
    /\ Exit(1, "unexpected")
    /\ UNCHANGED <<disk, inputs, idx, downloader, file_hash, dl, success, counters,
                   before, truncated, verdict, deleted>>

\* ------------------------------------------------------------ download_with_python
\* mutant: the size of the existing file is not looked at
resume_pos_of_zero(f) == 0

\* lines 87-91: os.path.getsize(filename) of an existing file
resume_pos_of(f) == IF f.exists THEN Len(f.data) ELSE 0
\* mutant: the file is never opened for appending
mode_of_wb(f) == "wb"
mode_of(f) == IF f.exists THEN "ab" ELSE "wb"

\* mutant: the file is always opened in write mode
OpenFile_truncating(f, mode) == FileOf(<<>>)

\* open(filename, mode)
OpenFile(f, mode) == IF mode = "wb" THEN FileOf(<<>>) ELSE FileOf(f.data)

\* lines 175-178: what download_resumable prints before it starts the backend
Announce(inter) ==
    <<"starting">> \o (IF inter THEN <<"target_url", "saving_as">> ELSE <<>>)

\* lines 89-99: what download_with_python prints before the request
Preamble(f, inter) ==
    Announce(inter) \o (IF f.exists THEN <<"resuming">> ELSE <<>>)
                   \o (IF inter THEN <<>> ELSE <<"downloading">>)

\* mutant: the end of a non-interactive transfer is not reported
Epilogue_silent(inter) == IF inter THEN <<"newline">> ELSE <<>>

\* lines 146-149: after the read loop
Epilogue(inter) == IF inter THEN <<"newline">> ELSE <<"download_complete">>

\* the only message with a carriage return is the progress line (144)
HasCR(msg) == msg = "progress"

\* lines 110-123: a Range was sent and the reply has no Content-Range: start over
restart(f, has_content_range) == resume_pos_of(f) > 0 /\ ~has_content_range
\* mutant: the counter keeps the size of the file that is about to be truncated
resume_pos_after_keep(f, has_content_range) == resume_pos_of(f)

resume_pos_after(f, has_content_range) ==
    IF restart(f, has_content_range) THEN 0 ELSE resume_pos_of(f)
\* mutant: a reply without Content-Range keeps the append mode
mode_after_keep(f, has_content_range) == mode_of(f)

mode_after(f, has_content_range) ==
    IF restart(f, has_content_range) THEN "wb" ELSE mode_of(f)

\* lines 84-131 once urlopen returned a response: the Content-Range total (or, without
\* a Content-Range, the Content-Length) is `total`; the file is opened, nothing read yet
DlBegin(reply, has_content_range, total, body, inter) ==
    LET f == Cur
        rp == resume_pos_after(f, has_content_range)
        m == mode_after(f, has_content_range)
    IN  /\ dl' = [resume_pos |-> rp, mode |-> m, total_size |-> total, downloaded |-> rp,
                  body |-> body, range |-> resume_pos_of(f) > 0, reply |-> reply,
                  outcome |-> "none",
                  interactive |-> inter, cr |-> FALSE,
                  range_start |-> resume_pos_of(f), requests |-> dl.requests + 1,
                  written |-> <<>>,
                  out |-> Preamble(f, inter)
                             \o (IF restart(f, has_content_range)
                                 THEN <<"no_resume">> ELSE <<>>),
                  cmd |-> <<>>]
        /\ disk' = [disk EXCEPT ![idx] = OpenFile(f, m)]
        /\ before' = f
        /\ truncated' = (f.exists /\ m = "wb")
        /\ calls' = Append(calls, "download")
        /\ pc' = "reading"
        /\ UNCHANGED <<args, idx, downloader, file_hash, success, counters, exit_code,
                       exitVia, verdict, deleted>>

\* the server honours the Range request: 206 with Content-Range bytes N-(T-1)/T
DlReplyPartial ==
    /\ pc = "download" /\ downloader = "python"
    /\ resume_pos_of(Cur) > 0
    /\ resume_pos_of(Cur) < RemoteLen
    /\ \E inter \in BOOLEAN :
          DlBegin("partial", TRUE, RemoteLen,
                  SubSeq(Remote, resume_pos_of(Cur) + 1, RemoteLen), inter)

\* 200 with the full content and no Content-Range: no Range was sent, or the server
\* ignored it
DlReplyFull ==
    /\ pc = "download" /\ downloader = "python"
    /\ \E inter \in BOOLEAN : DlBegin("full", FALSE, RemoteLen, Remote, inter)

\* mutant: 416 is handled like any other HTTPError
DlReply416_as_error ==
    /\ pc = "download" /\ downloader = "python"
    /\ resume_pos_of(Cur) > 0
    /\ resume_pos_of(Cur) >= RemoteLen
    /\ dl' = [DlIdle EXCEPT !.resume_pos = resume_pos_of(Cur), !.mode = mode_of(Cur),
                            !.range = TRUE, !.reply = "416", !.outcome = "failed",
                            !.range_start = resume_pos_of(Cur),
                            !.requests = dl.requests + 1]
    /\ before' = Cur
    /\ calls' = Append(calls, "download")
    /\ Exit(1, "transfer")
    /\ UNCHANGED <<disk, args, idx, downloader, file_hash, success, counters,
                   truncated, verdict, deleted>>

\* lines 151-154: HTTPError 416, the range starts at or after the end of the resource
DlReply416 ==
    /\ pc = "download" /\ downloader = "python"
    /\ resume_pos_of(Cur) > 0
    /\ resume_pos_of(Cur) >= RemoteLen
    /\ \E inter \in BOOLEAN :
          dl' = [DlIdle EXCEPT !.resume_pos = resume_pos_of(Cur), !.mode = mode_of(Cur),
                               !.range = TRUE, !.reply = "416", !.outcome = "complete",
                               !.interactive = inter,
                               !.range_start = resume_pos_of(Cur),
                               !.requests = dl.requests + 1,
                               !.out = Preamble(Cur, inter) \o <<"already_complete">>]
    /\ before' = Cur
    /\ calls' = Append(calls, "download")
    /\ pc' = "verify"
    /\ UNCHANGED <<disk, args, idx, downloader, file_hash, success, counters, exit_code,
                   exitVia, truncated, verdict, deleted>>

\* mutant: a failed request is issued once more
DlRequestFails_retry ==
    /\ pc = "download" /\ downloader = "python"
    /\ dl.requests < 2
    /\ dl' = [DlIdle EXCEPT !.requests = dl.requests + 1]
    /\ UNCHANGED <<disk, args, pc, idx, downloader, file_hash, success, counters,
                   exit_code, exitVia, pkghist>>

\* lines 151-161, 165-168: another HTTPError, a URLError, or a Content-Range whose
\* total is not a number (ValueError): sys.exit(1) before the file is opened
DlRequestFails ==
    /\ pc = "download" /\ downloader = "python"
    /\ \E kind \in {"http_error", "url_error", "bad_content_range"}, inter \in BOOLEAN :
          /\ kind = "bad_content_range" => resume_pos_of(Cur) > 0
          /\ dl' = [DlIdle EXCEPT !.resume_pos = resume_pos_of(Cur), !.mode = mode_of(Cur),
                                  !.range = resume_pos_of(Cur) > 0, !.reply = kind,
                                  !.outcome = "failed", !.interactive = inter,
                                  !.range_start = resume_pos_of(Cur),
                                  !.requests = dl.requests + 1,
                                  !.out = Preamble(Cur, inter) \o <<kind, "run_again">>]
    /\ before' = Cur
    /\ calls' = Append(calls, "download")
    /\ Exit(1, "transfer")
    /\ UNCHANGED <<disk, args, idx, downloader, file_hash, success, counters,
                   truncated, verdict, deleted>>

\* mutant: the chunk is written only while the progress line is shown
DlReadChunk_on_terminal ==
    /\ pc = "reading"
    /\ dl.body /= <<>>
    /\ LET chunk == Take(dl.body, ChunkBytes)
       IN  /\ disk' = [disk EXCEPT ![idx] =
                          IF dl.interactive THEN FileOf(Cur.data \o chunk) ELSE Cur]
           /\ dl' = [dl EXCEPT !.body = Drop(dl.body, ChunkBytes),
                               !.downloaded = dl.downloaded + Len(chunk),
                               !.written = dl.written \o chunk,
                               !.cr = dl.cr \/ (dl.interactive /\ dl.total_size > 0)]
    /\ UNCHANGED <<args, pc, idx, downloader, file_hash, success, counters, exit_code,
                   exitVia, pkghist>>

\* mutant: the chunk is read and counted but not written to the file
DlReadChunk_dropped ==
    /\ pc = "reading"
    /\ dl.body /= <<>>
    /\ LET chunk == Take(dl.body, ChunkBytes)
       IN  dl' = [dl EXCEPT !.body = Drop(dl.body, ChunkBytes),
                            !.downloaded = dl.downloaded + Len(chunk),
                            !.written = dl.written \o chunk,
                            !.cr = dl.cr \/ (dl.interactive /\ dl.total_size > 0)]
    /\ UNCHANGED <<disk, args, pc, idx, downloader, file_hash, success, counters, exit_code,
                   exitVia, pkghist>>

\* lines 132-144: one response.read(chunk_size) that returns data
DlReadChunk ==
    /\ pc = "reading"
    /\ dl.body /= <<>>
    /\ LET chunk == Take(dl.body, ChunkBytes)
       IN  /\ disk' = [disk EXCEPT ![idx] = FileOf(Cur.data \o chunk)]
           /\ dl' = [dl EXCEPT !.body = Drop(dl.body, ChunkBytes),
                               !.downloaded = dl.downloaded + Len(chunk),
                               !.written = dl.written \o chunk,
                               !.cr = dl.cr \/ (dl.interactive /\ dl.total_size > 0),
                               !.out = IF dl.interactive /\ dl.total_size > 0
                                       THEN Append(dl.out, "progress") ELSE dl.out]
    /\ UNCHANGED <<args, pc, idx, downloader, file_hash, success, counters, exit_code,
                   exitVia, pkghist>>

\* lines 133-135, 146-149: read returns b'' at the end of the body; the function returns
DlEndOfStream ==
    /\ pc = "reading"
    /\ dl.body = <<>>
    /\ dl' = [dl EXCEPT !.outcome = "complete", !.out = dl.out \o Epilogue(dl.interactive)]
    /\ pc' = "verify"
    /\ UNCHANGED <<disk, args, idx, downloader, file_hash, success, counters, exit_code,
                   exitVia, pkghist>>

\* lines 133-135: the connection is closed before the declared end of the body;
\* HTTPResponse.read(amt) returns b'' all the same and the function returns
DlShortBody ==
    /\ pc = "reading"
    /\ dl.body /= <<>>
    /\ dl' = [dl EXCEPT !.outcome = "short", !.out = dl.out \o Epilogue(dl.interactive)]
    /\ pc' = "verify"
    /\ UNCHANGED <<disk, args, idx, downloader, file_hash, success, counters, exit_code,
                   exitVia, pkghist>>

\* lines 165-168: read raises (connection reset, timeout): sys.exit(1)
DlReadFails ==
    /\ pc = "reading"
    /\ dl' = [dl EXCEPT !.outcome = "failed", !.out = dl.out \o <<"failed", "run_again">>]
    /\ Exit(1, "transfer")
    /\ UNCHANGED <<disk, args, idx, downloader, file_hash, success, counters, pkghist>>

\* mutant: the interrupt is handled like any other exception
DlInterrupted_as_error ==
    /\ \/ /\ pc = "reading"
          /\ dl' = [dl EXCEPT !.outcome = "interrupted",
                              !.out = Append(dl.out, "interrupted")]
          /\ UNCHANGED <<before, calls>>
       \/ /\ pc = "download" /\ downloader = "python"
          /\ \E inter \in BOOLEAN :
                dl' = [dl EXCEPT !.outcome = "interrupted",
                                 !.range = resume_pos_of(Cur) > 0,
                                 !.range_start = resume_pos_of(Cur),
                                 !.requests = dl.requests + 1,
                                 !.interactive = inter,
                                 !.out = Preamble(Cur, inter) \o <<"interrupted">>]
          /\ before' = Cur
          /\ calls' = Append(calls, "download")
    /\ Exit(1, "interrupt")
    /\ UNCHANGED <<disk, args, idx, downloader, file_hash, success, counters,
                   truncated, verdict, deleted>>

\* lines 162-164: KeyboardInterrupt inside urlopen or read: sys.exit(130)
DlInterrupted ==
    /\ \/ /\ pc = "reading"
          /\ dl' = [dl EXCEPT !.outcome = "interrupted",
                              !.out = Append(dl.out, "interrupted")]
          /\ UNCHANGED <<before, calls>>
       \/ /\ pc = "download" /\ downloader = "python"
          /\ \E inter \in BOOLEAN :
                dl' = [dl EXCEPT !.outcome = "interrupted",
                                 !.range = resume_pos_of(Cur) > 0,
                                 !.range_start = resume_pos_of(Cur),
                                 !.requests = dl.requests + 1,
                                 !.interactive = inter,
                                 !.out = Preamble(Cur, inter) \o <<"interrupted">>]
          /\ before' = Cur
          /\ calls' = Append(calls, "download")
    /\ Exit(130, "interrupt")
    /\ UNCHANGED <<disk, args, idx, downloader, file_hash, success, counters,
                   truncated, verdict, deleted>>

\* ------------------------------------------------------------ external backends
\* what `aria2c -c`, `wget -c`, `curl -C -` leave on exit status 0: the existing bytes
\* followed by the rest of the resource
ExtComplete(f) ==
    IF Len(f.data) >= RemoteLen THEN FileOf(f.data)
    ELSE FileOf(f.data \o SubSeq(Remote, Len(f.data) + 1, RemoteLen))

\* what they leave on a non-zero exit status: the existing bytes and some more, or nothing
ExtPartial(f) ==
    {f} \cup {FileOf(f.data \o SubSeq(Remote, Len(f.data) + 1, k)) :
                 k \in (Len(f.data) + 1)..(RemoteLen - 1)}

\* mutant: the quiet flags are never added
command_verbose(tool, inter) ==
    IF tool = "aria2c" THEN <<"aria2c", "-c", "URL", "-o", "FILENAME">>
    ELSE IF tool = "wget" THEN <<"wget", "-c", "URL", "-O", "FILENAME">>
    ELSE <<"curl", "-C", "-", "-L", "-o", "FILENAME", "URL">>

\* download_resumable lines 185-197: the command line of the external tool
command(tool, inter) ==
    IF tool = "aria2c"
    THEN <<"aria2c", "-c", "URL", "-o", "FILENAME">>
            \o (IF inter THEN <<>> ELSE <<"--summary-interval=0", "--quiet=true">>)
    ELSE IF tool = "wget"
    THEN <<"wget", "-c", "URL", "-O", "FILENAME">> \o (IF inter THEN <<>> ELSE <<"-nv">>)
    ELSE <<"curl", "-C", "-", "-L", "-o", "FILENAME", "URL">>
            \o (IF inter THEN <<>> ELSE <<"-s", "-S">>)

\* the locals of download_resumable once subprocess.run(cmd) has ended
ExtRun(outcome, inter, messages) ==
    [DlIdle EXCEPT !.reply = "external", !.outcome = outcome, !.interactive = inter,
                   !.requests = dl.requests + 1,
                   !.cmd = command(downloader, inter),
                   !.out = Announce(inter) \o messages]

\* download_resumable lines 185-202: subprocess.run(cmd, check=True) returns
ExtDownloadOk ==
    /\ pc = "download" /\ downloader /= "python"
    /\ \E inter \in BOOLEAN :
          dl' = ExtRun("complete", inter,
                       IF inter THEN <<>> ELSE <<"download_complete">>)
    /\ disk' = [disk EXCEPT ![idx] = ExtComplete(Cur)]
    /\ before' = Cur
    /\ calls' = Append(calls, "download")
    /\ pc' = "verify"
    /\ UNCHANGED <<args, idx, downloader, file_hash, success, counters, exit_code,
                   exitVia, truncated, verdict, deleted>>

\* download_resumable lines 203-206: CalledProcessError, sys.exit(1)
ExtDownloadFails ==
    /\ pc = "download" /\ downloader /= "python"
    /\ \E inter \in BOOLEAN :
          dl' = ExtRun("failed", inter, <<"failed", "run_again">>)
    /\ \E f \in ExtPartial(Cur) : disk' = [disk EXCEPT ![idx] = f]
    /\ before' = Cur
    /\ calls' = Append(calls, "download")
    /\ Exit(1, "transfer")
    /\ UNCHANGED <<args, idx, downloader, file_hash, success, counters,
                   truncated, verdict, deleted>>

\* download_resumable line 200 and main lines 538-540: KeyboardInterrupt while the
\* external tool runs; the tool receives the signal too and leaves what it wrote
ExtInterrupted ==
    /\ pc = "download" /\ downloader /= "python"
    /\ \E inter \in BOOLEAN :
          dl' = ExtRun("interrupted", inter, <<>>)
    /\ \E f \in ExtPartial(Cur) : disk' = [disk EXCEPT ![idx] = f]
    /\ before' = Cur
    /\ calls' = Append(calls, "download")
    /\ Exit(130, "interrupt")
    /\ UNCHANGED <<args, idx, downloader, file_hash, success, counters,
                   truncated, verdict, deleted>>

\* ------------------------------------------------------------ verify, install, cleanup
\* mutant: the result of verify_file_hash is ignored
Verify_unchecked ==
    /\ pc = "verify"
    /\ verdict' = verify_outcome(Cur, file_hash)
    /\ calls' = Append(calls, "verify")
    /\ pc' = "install"
    /\ UNCHANGED <<disk, args, idx, downloader, file_hash, dl, success, counters,
                   exit_code, exitVia, before, truncated, deleted>>

\* lines 404-407 and 519-522: verify_file_hash, then return False / sys.exit(1) on failure
Verify ==
    /\ pc = "verify"
    /\ verdict' = verify_outcome(Cur, file_hash)
    /\ calls' = Append(calls, "verify")
    /\ IF verify_file_hash(Cur, file_hash)
       THEN pc' = "install" /\ UNCHANGED <<success, exit_code, exitVia>>
       ELSE IF batch THEN Return(FALSE)
            ELSE Exit(1, "verification") /\ UNCHANGED success
    /\ UNCHANGED <<disk, args, idx, downloader, file_hash, dl, counters,
                   before, truncated, deleted>>

\* the path taken once install_package returned True (lines 412-416, 527-533):
\* cleanup only if the file exists, otherwise the package is done
AfterInstallOk ==
    IF Cur.exists THEN pc' = "cleanup" /\ UNCHANGED <<exit_code, exitVia>>
    ELSE IF batch THEN pc' = "pkg_done" /\ UNCHANGED <<exit_code, exitVia>>
         ELSE Exit(0, "done")

\* mutant: cleanup runs whatever install_package returned
AfterInstallFailed_cleanup == pc' = "cleanup" /\ UNCHANGED <<exit_code, exitVia>>

\* mutant: the single-package path ignores the result of install_package
AfterInstallFailed_ignored ==
    IF batch THEN pc' = "pkg_done" /\ UNCHANGED <<exit_code, exitVia>>
    ELSE Exit(0, "done")

\* the path taken once install_package returned False: return False (416) in a batch,
\* sys.exit(1) for a single package (527-528); no cleanup
AfterInstallFailed ==
    IF batch THEN pc' = "pkg_done" /\ UNCHANGED <<exit_code, exitVia>>
    ELSE Exit(1, "installation")

\* install_package lines 256-267: pip install exits with status 0
InstallOk ==
    /\ pc = "install"
    /\ success' = TRUE
    /\ calls' = Append(calls, "install")
    /\ AfterInstallOk
    /\ UNCHANGED <<disk, args, idx, downloader, file_hash, dl, counters,
                   before, truncated, verdict, deleted>>

\* install_package lines 268-271: CalledProcessError, returns False
InstallFails ==
    /\ pc = "install"
    /\ success' = FALSE
    /\ calls' = Append(calls, "install")
    /\ AfterInstallFailed
    /\ UNCHANGED <<disk, args, idx, downloader, file_hash, dl, counters,
                   before, truncated, verdict, deleted>>

\* where control goes after cleanup: install_single_package returns success (416),
\* main's single-package path ends normally
AfterCleanup ==
    IF batch THEN pc' = "pkg_done" /\ UNCHANGED <<exit_code, exitVia>>
    ELSE Exit(0, "done")

\* cleanup lines 275-277: os.remove succeeds
CleanupOk ==
    /\ pc = "cleanup"
    /\ disk' = [disk EXCEPT ![idx] = NoFile]
    /\ deleted' = TRUE
    /\ calls' = Append(calls, "cleanup")
    /\ AfterCleanup
    /\ UNCHANGED <<args, idx, downloader, file_hash, dl, success, counters,
                   before, truncated, verdict>>

\* cleanup lines 278-279: os.remove raises OSError, a warning is printed
CleanupFails ==
    /\ pc = "cleanup"
    /\ calls' = Append(calls, "cleanup")
    /\ AfterCleanup
    /\ UNCHANGED <<disk, args, idx, downloader, file_hash, dl, success, counters,
                   before, truncated, verdict, deleted>>

\* main lines 538-540: KeyboardInterrupt while the resolver or the installer runs:
\* sys.exit(130)
MainInterrupted ==
    /\ \/ pc = "resolve"
       \/ pc = "install"
    /\ Exit(130, "interrupt")
    /\ UNCHANGED <<disk, args, idx, downloader, file_hash, dl, success, counters, pkghist>>

\* the operator runs the same command again; only the file system is kept
Rerun ==
    /\ pc = "exited"
    /\ pc' = "start"
    /\ idx' = 1
    /\ downloader' = "none"
    /\ file_hash' = NoHash
    /\ dl' = DlIdle
    /\ success' = FALSE
    /\ successful_count' = 0
    /\ failed_packages' = <<>>
    /\ exit_code' = -1
    /\ before' = NoFile
    /\ truncated' = FALSE
    /\ calls' = <<>>
    /\ verdict' = "none"
    /\ deleted' = FALSE
    /\ results' = <<>>
    /\ attempts' = <<>>
    /\ exitVia' = "none"
    /\ report' = NoReport
    /\ UNCHANGED <<disk, inputs>>

Next ==
    \/ NoTarget
    \/ MainStart
    \/ BatchNext
    \/ BatchRecord
    \/ Summary
    \/ ResolveOk
    \/ ResolveFails
    \/ ResolveUnexpected
    \/ DlReplyPartial
    \/ DlReplyFull
    \/ DlReply416
    \/ DlRequestFails
    \/ DlReadChunk
    \/ DlEndOfStream
    \/ DlShortBody
    \/ DlReadFails
    \/ DlInterrupted
    \/ ExtDownloadOk
    \/ ExtDownloadFails
    \/ ExtInterrupted
    \/ Verify
    \/ InstallOk
    \/ InstallFails
    \/ CleanupOk
    \/ CleanupFails
    \/ MainInterrupted
    \/ Rerun

Spec == Init /\ [][Next]_vars

\* ------------------------------------------------------------ repeated download
\* download_with_python invoked again and again for one target, against a server that
\* honours Range requests and serves Remote unchanged; an invocation that stops before
\* the end of the body has written at least one byte
InitResume ==
    /\ target = TRUE
    /\ batch = FALSE
    /\ packages = 1
    /\ disk \in [1..MaxPkgs -> AllFiles]
    /\ \A p \in 2..MaxPkgs : disk[p] = NoFile
    /\ pc = "download"
    /\ idx = 1
    /\ downloader = "python"
    /\ file_hash = NoHash
    /\ dl = DlIdle
    /\ success = FALSE
    /\ successful_count = 0
    /\ failed_packages = <<>>
    /\ exit_code = -1
    /\ before = NoFile
    /\ truncated = FALSE
    /\ calls = <<>>
    /\ verdict = "none"
    /\ deleted = FALSE
    /\ results = <<>>
    /\ attempts = <<>>
    /\ exitVia = "none"
    /\ unit = UnitIdle
    /\ report = NoReport
    /\ first = NoRun

\* a server that honours ranges sends the whole resource only when no Range was sent
RsReplyFull == pc = "download" /\ resume_pos_of(Cur) = 0 /\ DlReplyFull

RsShortBody == dl.written /= <<>> /\ DlShortBody
RsReadFails == dl.written /= <<>> /\ DlReadFails
RsInterrupted == pc = "reading" /\ dl.written /= <<>> /\ DlInterrupted

\* the same call is made again after the function returned (pc = "verify") or ended
\* the process; results remembers how the first MaxHistory invocations ended
Reinvoke ==
    /\ pc \in {"verify", "exited"}
    /\ pc' = "download"
    /\ results' = (IF Len(results) < MaxHistory
                   THEN Append(results, dl.outcome = "complete") ELSE results)
    /\ dl' = DlIdle
    /\ before' = NoFile
    /\ truncated' = FALSE
    /\ calls' = <<>>
    /\ exit_code' = -1
    /\ exitVia' = "none"
    /\ UNCHANGED <<disk, args, idx, downloader, file_hash, success, successful_count,
                   failed_packages, attempts, verdict, deleted>>

NextResume ==
    \/ DlReplyPartial
    \/ RsReplyFull
    \/ DlReply416
    \/ DlReadChunk
    \/ DlEndOfStream
    \/ RsShortBody
    \/ RsReadFails
    \/ RsInterrupted
    \/ Reinvoke

\* the process runs its next statement and the operator repeats the call
SpecResume == InitResume /\ [][NextResume]_vars /\ WF_vars(NextResume)

\* ------------------------------------------------------------ functions called on their own
\* verify_file_hash and check_downloader as the unit tests call them: the arguments
\* are drawn in the initial state, one action applies the function
InitUnit ==
    /\ target = TRUE
    /\ batch = FALSE
    /\ packages = 1
    /\ disk = [p \in 1..MaxPkgs |-> NoFile]
    /\ InitLocals
    /\ \/ \E f \in UnitFiles, h \in ExpectedHashes :
             unit = [UnitIdle EXCEPT !.fn = "verify_file_hash", !.file = f,
                                     !.expected = h, !.out = "pending"]
       \/ \E present \in SUBSET ExternalTools :
             unit = [UnitIdle EXCEPT !.fn = "check_downloader", !.present = present,
                                     !.out = "pending"]
       \/ \E s \in PackageSpecs, a \in InstallArgs, status \in {0, 1} :
             unit = [UnitIdle EXCEPT !.fn = "install_single_package", !.spec = s,
                                     !.install_args = a, !.status = status,
                                     !.out = "pending"]
       \/ \E fs \in FileSystems :
             unit = [UnitIdle EXCEPT !.fn = "parse_requirements_file", !.fs = fs,
                                     !.out = "pending"]
    /\ report = NoReport
    /\ first = NoRun

UnitLocals == <<disk, target, batch, packages, pc, idx, downloader, file_hash, dl, success,
                successful_count, failed_packages, exit_code,
                before, truncated, calls, verdict, deleted, results, attempts, exitVia,
                report, first>>

VerifyCall ==
    /\ unit.fn = "verify_file_hash" /\ unit.out = "pending"
    /\ unit' = [unit EXCEPT !.out = verify_outcome(unit.file, unit.expected),
                            !.ret = verify_file_hash(unit.file, unit.expected)]
    /\ UNCHANGED UnitLocals

CheckDownloaderCall ==
    /\ unit.fn = "check_downloader" /\ unit.out = "pending"
    /\ unit' = [unit EXCEPT !.out = check_downloader(unit.present), !.ret = TRUE]
    /\ UNCHANGED UnitLocals

\* install_single_package lines 392-395 and install_editable_package: an editable
\* specification goes to pip at once, whose exit status is unit.status; any other
\* specification goes to resolve_package first
InstallSingleCall ==
    /\ unit.fn = "install_single_package" /\ unit.out = "pending"
    /\ unit' = IF is_editable_install(unit.spec)
               THEN [unit EXCEPT !.out = "editable",
                                 !.cmd = editable_cmd(unit.spec, unit.install_args),
                                 !.called = {"installer"},
                                 !.ret = (unit.status = 0)]
               ELSE [unit EXCEPT !.out = "regular", !.called = {"resolve_package"}]
    /\ UNCHANGED UnitLocals

\* main line 463: parse_requirements_file(requirements_file)
ParseCall ==
    /\ unit.fn = "parse_requirements_file" /\ unit.out = "pending"
    /\ unit' = [unit EXCEPT !.out = "done",
                            !.parsed = parse_requirements_file(unit.fs, TopName, 1)]
    /\ UNCHANGED UnitLocals

NextUnit ==
    \/ VerifyCall
    \/ CheckDownloaderCall
    \/ InstallSingleCall
    \/ ParseCall

SpecUnit == InitUnit /\ [][NextUnit]_vars

\* ------------------------------------------------------------ claims
\* the current package is being processed or has just ended the run
InPackage ==
    \/ pc \in {"resolve", "download", "reading", "verify", "install", "cleanup", "pkg_done"}
    \/ pc = "exited" /\ exitVia \notin {"summary", "no_packages", "no_target"}

C3_RangeNotSatisfiable ==
    (InPackage /\ dl.reply = "416")
        => /\ dl.outcome = "complete"
           /\ exitVia /= "transfer"
           /\ dl.downloaded = 0
           /\ ~truncated
           /\ ~deleted => Cur = before

C3_Witness ==
    /\ pc = "verify" /\ dl.reply = "416"
    /\ Len(before.data) = RemoteLen /\ Cur = before

\* transfer, verification and installation of the current package all succeeded
AllSucceeded ==
    /\ dl.outcome \in {"complete", "short"}
    /\ verdict \in {"verified", "skipped", "unsupported"}
    /\ "install" \in {calls[i] : i \in 1..Len(calls)}
    /\ success

CleanupCalled == "cleanup" \in {calls[i] : i \in 1..Len(calls)}

\* install_single_package returned, or the process ended inside the package
PackageEnded ==
    \/ pc = "pkg_done"
    \/ pc = "exited" /\ exitVia \notin {"summary", "no_packages", "no_target"}

\* the transfer found or created the target file
ArtifactPresent ==
    before.exists \/ dl.reply \in {"partial", "full"} \/ dl.outcome \in {"complete", "short"}

\* C4 as stated: once a package has ended, its artifact has been deleted if and only
\* if transfer, verification and installation all succeeded.
C4_DeletedIffAllSucceeded == PackageEnded => (deleted <=> AllSucceeded)

\* C4 amended: cleanup is invoked if and only if transfer, verification and
\* installation all succeeded, the artifact is deleted only by that cleanup (and stays
\* when its os.remove fails), and after any failure cleanup was not called and the
\* artifact is still on disk.
C4_CleanupGating ==
    /\ InPackage /\ CleanupCalled => AllSucceeded
    /\ PackageEnded /\ AllSucceeded => CleanupCalled
    /\ InPackage /\ deleted => CleanupCalled /\ ~Cur.exists
    /\ PackageEnded /\ ~AllSucceeded
          => /\ ~CleanupCalled
             /\ ~deleted
             /\ ArtifactPresent => Cur.exists
    /\ PackageEnded /\ ~deleted /\ ArtifactPresent => Cur.exists

C4_Witness ==
    /\ pc = "exited" /\ exitVia = "installation"
    /\ verdict = "verified" /\ ~success /\ ~CleanupCalled /\ Cur = FileOf(Remote)

\* indices of the failed packages among results[1..n], in order
RECURSIVE FailedOf(_, _)
FailedOf(rs, n) ==
    IF n = 0 THEN <<>>
    ELSE IF rs[n] THEN FailedOf(rs, n - 1) ELSE Append(FailedOf(rs, n - 1), n)

\* C5 (state part): batch partial-failure semantics.  The counts match the per-package results; a
\* failure result of install_single_package is recorded and the loop goes on to the next
\* package; the summary is reached with every package attempted, and it exits with 1
\* exactly when a package failed, with 0 otherwise.
C5_Accounting ==
    batch =>
        /\ failed_packages = FailedOf(results, Len(results))
        /\ successful_count + Len(failed_packages) = Len(results)
        /\ pc \in {"loop", "resolve", "download", "reading", "verify", "install",
                   "cleanup", "pkg_done"} => Len(results) = idx - 1
        /\ (pc = "exited" /\ exitVia = "summary")
              => /\ Len(results) = packages
                 /\ exit_code = (IF failed_packages /= <<>> THEN 1 ELSE 0)
                 /\ exit_code = (IF \E i \in 1..packages : ~results[i] THEN 1 ELSE 0)
        /\ (pc = "exited" /\ exit_code = 0)
              => failed_packages = <<>> /\ \A i \in 1..Len(results) : results[i]

\* C5 (step part): a failure result is recorded and the loop moves to the next package
\* or, after the last one, to the summary
C5_Continues ==
    /\ (batch /\ pc = "pkg_done" /\ ~success)
          => /\ pc' = "loop" /\ idx' = idx + 1
             /\ failed_packages' = Append(failed_packages, idx)
             /\ exit_code' = -1
    /\ (batch /\ pc = "loop" /\ idx <= packages) => pc' = "resolve" /\ idx' = idx
    /\ (batch /\ pc = "loop" /\ idx > packages) => pc' = "exited" /\ exitVia' = "summary"

\* C5: in every state of a batch the accounting holds, and every step taken after a
\* failure result continues the loop.
C5_BatchPartialFailure == [](C5_Accounting) /\ [][C5_Continues]_vars

C5_Witness ==
    /\ pc = "exited" /\ exitVia = "summary" /\ exit_code = 1
    /\ packages = 2 /\ results = <<FALSE, TRUE>>
    /\ successful_count = 1 /\ failed_packages = <<1>>

\* C6 as stated: in a batch a transfer error on a package does not end the run: while
\* later packages remain, the process has not exited.
C6_TransferErrorCaught ==
    (batch /\ InPackage /\ dl.outcome = "failed" /\ idx < packages) => pc /= "exited"

\* C7 as stated: in a batch an unanticipated exception on a package does not end the
\* run: while later packages remain, the process has not exited because of it.
C7_UnexpectedCaught ==
    (batch /\ pc = "exited" /\ idx < packages) => exitVia /= "unexpected"

CallOrder == <<"resolve", "download", "verify", "install", "cleanup">>
Called(name) == name \in {calls[i] : i \in 1..Len(calls)}

\* C8: orchestrator ordering.  The collaborators of a package are invoked in the order
\* resolve, download, verify, install, cleanup, each at most once; verification runs
\* only after the download returned normally, installation only after verification
\* succeeded, and after a verification failure neither install nor cleanup runs.
C8_Ordering ==
    InPackage =>
        /\ IsPrefix(calls, CallOrder)
        /\ Called("verify") => dl.outcome \in {"complete", "short"}
        /\ Called("verify") <=> verdict /= "none"
        /\ Called("install") => verdict \in {"verified", "skipped", "unsupported"}
        /\ verdict \in {"mismatch", "notfound"}
              => ~Called("install") /\ ~Called("cleanup") /\ ~deleted

C8_Witness ==
    /\ pc = "pkg_done" /\ verdict = "mismatch"
    /\ calls = <<"resolve", "download", "verify">>

\* C9 as stated, for the built-in backend: whenever verify_file_hash computes a digest
\* after download_with_python read a response and returned success, the file is as long
\* as the remote resource.
C9_DigestOnWholeFile ==
    (/\ pc = "verify" /\ downloader = "python"
     /\ dl.reply \in {"partial", "full"}
     /\ verify_outcome(Cur, file_hash) \in {"verified", "mismatch"})
        => Len(Cur.data) = RemoteLen

\* C10: no truncation.  An existing file is opened in write mode only in an invocation
\* of the built-in backend that sent a Range and got a reply without Content-Range; in
\* every other outcome the bytes on disk before the invocation still start the file.
C10_NoTruncation ==
    (InPackage /\ downloader = "python" /\ Called("download") /\ ~deleted)
        => /\ truncated => dl.range /\ dl.reply = "full"
           /\ (before.exists /\ ~(dl.range /\ dl.reply = "full"))
                 => Cur.exists /\ IsPrefix(before.data, Cur.data)

C10_Witness ==
    /\ pc = "exited" /\ exitVia = "transfer" /\ downloader = "python"
    /\ dl.reply = "partial" /\ dl.downloaded > dl.resume_pos
    /\ Len(before.data) = 1 /\ IsPrefix(before.data, Cur.data)

\* every package of the request was resolved, transferred, verified and installed
EveryPackageInstalled ==
    /\ target
    /\ IF batch
       THEN Len(results) = packages /\ \A i \in 1..Len(results) : results[i]
       ELSE Called("resolve") /\ AllSucceeded

C12_InterruptedTransfer ==
    dl.outcome = "interrupted" =>
        /\ pc = "exited" /\ exit_code = 130 /\ exit_code /= 1
        /\ ~Called("verify") /\ ~Called("install") /\ ~Called("cleanup")
        /\ verdict = "none" /\ ~deleted
        /\ Len(results) = (IF batch THEN idx - 1 ELSE 0)
        /\ (before.exists \/ dl.reply \in {"partial", "full"}) => Cur.exists
        /\ dl.reply = "partial" => IsPrefix(before.data, Cur.data)
        /\ dl.reply = "external" => Cur \in ExtPartial(before)
        /\ dl.reply = "none" => Cur = before

\* the first package of a batch is interrupted after a chunk was appended to its file
C12_Witness ==
    /\ pc = "exited" /\ dl.outcome = "interrupted" /\ dl.reply = "partial"
    /\ batch /\ idx < packages
    /\ Len(Cur.data) > Len(before.data)

\* verify_file_hash returned for a file that exists
Verified ==
    unit.fn = "verify_file_hash" /\ unit.out /= "pending" /\ unit.file.exists

\* C13: digest round trip.  For every file content and each supported algorithm, the
\* expected value algorithm=hexdigest(content) is verified (True); an expected value
\* whose digest differs from the computed one in a hex character is a mismatch (False);
\* an expected value without an algorithm prefix is checked as sha256.
C13_DigestRoundTrip ==
    Verified =>
        /\ \A a \in SupportedAlgorithms :
              /\ unit.expected = a \o <<"=">> \o hexdigest(a, unit.file.data)
                    => unit.out = "verified" /\ unit.ret
              /\ \A h \in LowerValues :
                    (unit.expected = a \o <<"=">> \o h /\ h /= hexdigest(a, unit.file.data))
                       => unit.out = "mismatch" /\ ~unit.ret
        /\ \A h \in LowerValues :
              unit.expected = h
                 => /\ unit.out = (IF h = hexdigest(<<"sha256">>, unit.file.data)
                                   THEN "verified" ELSE "mismatch")
                    /\ unit.ret = (h = hexdigest(<<"sha256">>, unit.file.data))

\* the sha512 digest of a file of the longest content verifies
C13_Witness ==
    /\ Verified /\ unit.out = "verified"
    /\ unit.expected = <<"sha512", "=">> \o hexdigest(<<"sha512">>, unit.file.data)
    /\ Len(unit.file.data) = MaxContentLen

\* C14: digests are compared case-insensitively.  An expected digest with a supported
\* algorithm that equals the computed digest once both are written in lower case is
\* verified.
C14_CaseInsensitive ==
    (/\ Verified
     /\ algorithm_of(unit.expected) \in SupportedAlgorithms
     /\ Lower(hash_value_of(unit.expected))
            = hexdigest(algorithm_of(unit.expected), unit.file.data))
        => unit.out = "verified" /\ unit.ret

\* C15: digest leniency.  With no digest, or a digest whose algorithm is not sha256,
\* sha512 or md5, verify_file_hash returns True without looking at the file, whether
\* the file exists or not.
C15_Leniency ==
    (/\ unit.fn = "verify_file_hash" /\ unit.out /= "pending"
     /\ \/ unit.expected = NoHash
        \/ algorithm_of(unit.expected) \notin SupportedAlgorithms)
        => unit.ret /\ unit.out \in {"skipped", "unsupported"}

\* foo=ba for a file that does not exist
C15_Witness ==
    /\ unit.fn = "verify_file_hash" /\ unit.out = "unsupported" /\ unit.ret
    /\ unit.expected = <<"foo", "=", "b", "a">>
    /\ ~unit.file.exists

\* C16: a missing file is reported differently from a mismatch.  The value returned for
\* a missing file with a supported digest differs from the value returned with the same
\* digest for any file whose content does not match it.
C16_MissingDistinct ==
    (unit.fn = "verify_file_hash" /\ unit.out = "notfound")
        => \A f \in UnitFiles :
              verify_outcome(f, unit.expected) = "mismatch"
                 => verify_file_hash(f, unit.expected) /= unit.ret

\* C17: backend selection.  check_downloader returns the first tool present in the
\* order aria2c, wget, curl, and "python" exactly when none is present.
C17_BackendSelection ==
    (unit.fn = "check_downloader" /\ unit.out /= "pending")
        => /\ unit.out = (IF "aria2c" \in unit.present THEN "aria2c"
                          ELSE IF "wget" \in unit.present THEN "wget"
                          ELSE IF "curl" \in unit.present THEN "curl" ELSE "python")
           /\ unit.out = "python" <=> unit.present = {}
           /\ unit.out \in unit.present \cup {"python"}
           /\ unit.ret

\* wget and curl are present, aria2c is not
C17_Witness ==
    /\ unit.fn = "check_downloader" /\ unit.out = "wget"
    /\ unit.present = {"wget", "curl"}

\* download_with_python failed or was interrupted
PyFailed == downloader = "python" /\ dl.outcome \in {"failed", "interrupted"}

\* the body of the response the built-in download received
ResponseBody ==
    IF dl.reply = "partial" THEN SubSeq(Remote, Len(before.data) + 1, RemoteLen)
    ELSE IF dl.reply = "full" THEN Remote ELSE <<>>

\* C18 as stated: after a failed or interrupted built-in download the file holds the
\* bytes it had before the call followed by the chunks written, and is not deleted.
C18_AppendsToPrevious ==
    PyFailed => (~deleted /\ Cur.data = before.data \o dl.written)

\* C18 (state part): after a failed or interrupted built-in download the file is not
\* deleted; what was written is k whole chunks of the response body; the file holds the
\* bytes it had before followed by them, or them alone when the reply carried no
\* Content-Range and the file was restarted from zero.  Every built-in download
\* requests the range that starts at the size of the file it finds, with a Range
\* header exactly when that size is positive.
C18_Progress ==
    /\ PyFailed =>
          /\ ~deleted
          /\ before.exists => Cur.exists
          /\ \E k \in 0..RemoteLen : dl.written = Take(ResponseBody, k * ChunkBytes)
          /\ Cur.data = (IF truncated THEN <<>> ELSE before.data) \o dl.written
    /\ (downloader = "python" /\ Called("download")) =>
          /\ dl.range_start = Len(before.data)
          /\ dl.range = (Len(before.data) > 0)

\* C18 (step part): a target file changes only while its own package is downloaded or
\* cleaned up, so the file a failed download leaves is the file the next one finds.
C18_OnlyTransferWrites ==
    \A p \in 1..MaxPkgs :
        disk'[p] /= disk[p] => (p = idx /\ pc \in {"download", "reading", "cleanup"})

\* C18: a transfer failure preserves progress.
C18_FailurePreservesProgress == [](C18_Progress) /\ [][C18_OnlyTransferWrites]_vars

\* a resumed download fails after a chunk was appended to a non-empty file
C18_Witness ==
    /\ pc = "exited" /\ PyFailed /\ dl.outcome = "failed" /\ dl.reply = "partial"
    /\ Len(before.data) > 0 /\ Len(dl.written) > 0
    /\ Cur.data = before.data \o dl.written

Complete == Cur = FileOf(Remote)
PrefixFile == IsPrefix(Cur.data, Remote)

\* C19 as stated: whatever file is found at first, repeating the call eventually leaves
\* a file equal to the remote content.
C19_EventuallyComplete == <>[]Complete

\* an invocation that starts on a complete file succeeds without writing
C19_CompleteStays ==
    /\ Complete => disk' = disk
    /\ (Complete /\ pc = "download") =>
          (pc' = "verify" /\ dl'.outcome = "complete" /\ dl'.written = <<>>)

\* the file is never removed and never gets shorter
C19_NeverShrinks == (Cur.exists => Cur'.exists) /\ Len(Cur'.data) >= Len(Cur.data)

\* C19: re-invocation resumes and eventually completes.  Starting from an absent file
\* or a prefix of the remote content, repeated invocations lead to a file equal to the
\* remote content, which then stays; the file size never decreases; an invocation that
\* starts on the complete file succeeds without writing.
C19_ResumeCompletes ==
    /\ PrefixFile ~> Complete
    /\ [][C19_NeverShrinks]_vars
    /\ [][C19_CompleteStays]_vars

\* the first invocation failed, the second one resumed and completed the file
C19_Witness ==
    /\ results = <<FALSE>>
    /\ pc = "verify" /\ dl.reply = "partial" /\ dl.outcome = "complete"
    /\ Len(before.data) > 0 /\ Complete

\* C20: no automatic retry.  One invocation of download_with_python issues one request,
\* whatever the outcome; when the server ignored the range request, the restarted file
\* is filled from the body of that same response; an error ends the process.
C20_NoRetry ==
    /\ dl.requests <= 1
    /\ (downloader = "python" /\ Called("download")) => dl.requests = 1
    /\ (downloader = "python" /\ truncated) =>
          /\ dl.requests = 1
          /\ dl.written \o dl.body = Remote
          /\ pc \in {"reading", "verify"} => Cur.data = dl.written
    /\ dl.outcome = "failed" => (pc = "exited" /\ exit_code = 1)

\* the server ignored the range request and the file was rewritten from one response
C20_Witness ==
    /\ pc = "verify" /\ downloader = "python" /\ truncated
    /\ dl.outcome = "complete" /\ dl.requests = 1
    /\ Len(before.data) > 0 /\ Cur = FileOf(Remote)

\* C21: strictly sequential batch.  The packages are started in list order, none twice;
\* while a package is processed every earlier package has its pass/fail result and no
\* later one was started, so a transfer in progress belongs to the one package being
\* processed; the summary is reached only after every package was started once.
C21_Sequential ==
    batch =>
        /\ attempts = [i \in 1..Len(attempts) |-> i]
        /\ Len(attempts) <= packages
        /\ pc \in {"resolve", "download", "reading", "verify", "install", "cleanup",
                   "pkg_done"}
              => (Len(attempts) = idx /\ Len(results) = idx - 1)
        /\ pc = "loop" => (Len(attempts) = idx - 1 /\ Len(results) = idx - 1)
        /\ (pc = "exited" /\ exitVia = "summary")
              => (Len(attempts) = packages /\ Len(results) = packages)
        /\ (pc = "exited" /\ InPackage)
              => (Len(attempts) = idx /\ Len(results) = idx - 1)

\* the second package of a batch is being transferred, the first one has its result
C21_Witness ==
    /\ batch /\ pc = "reading" /\ idx = 2
    /\ attempts = <<1, 2>> /\ Len(results) = 1

Printed(msg) == msg \in {dl.out[i] : i \in 1..Len(dl.out)}

\* download_resumable returned normally
TransferReturned == Called("download") /\ dl.outcome \in {"complete", "short"}

\* C23 as stated: in a non-interactive context no printed message has a carriage
\* return, and a transfer that succeeded printed the start line and the "Download
\* complete" line.
C23_QuietLog ==
    ~dl.interactive =>
        /\ \A i \in 1..Len(dl.out) : ~HasCR(dl.out[i])
        /\ TransferReturned => (Printed("starting") /\ Printed("download_complete"))

\* C23: in a non-interactive context no printed message has a carriage return, the
\* progress line is printed only in an interactive context, and a transfer that
\* succeeded printed the start line and then either the "Download complete" line or,
\* when the built-in backend got 416, "File already complete!".
C23_QuietLogOr416 ==
    /\ Printed("progress") => dl.interactive
    /\ dl.cr => dl.interactive
    /\ ~dl.interactive =>
          /\ \A i \in 1..Len(dl.out) : ~HasCR(dl.out[i])
          /\ TransferReturned =>
                /\ dl.out[1] = "starting"
                /\ dl.out[Len(dl.out)] =
                      (IF dl.reply = "416" THEN "already_complete" ELSE "download_complete")
                /\ Printed("download_complete") <=> dl.reply /= "416"

\* a non-interactive built-in download read two chunks and printed its last line
C23_Witness ==
    /\ ~dl.interactive /\ downloader = "python" /\ pc = "verify"
    /\ dl.outcome = "complete" /\ Len(dl.written) = RemoteLen
    /\ Printed("download_complete")

\* position of a token in a command line, 0 when absent
Pos(c, tok) == IF \E i \in 1..Len(c) : c[i] = tok
               THEN CHOOSE i \in 1..Len(c) : c[i] = tok ELSE 0
Followed(c, flag, arg) == Pos(c, flag) > 0 /\ Pos(c, flag) < Len(c) /\ c[Pos(c, flag) + 1] = arg
QuietFlags(tool) ==
    IF tool = "aria2c" THEN {"--summary-interval=0", "--quiet=true"}
    ELSE IF tool = "wget" THEN {"-nv"} ELSE {"-s", "-S"}

\* C24: external backend invocation.  The command starts with the tool, carries its
\* resume flag, the output option followed by the target filename, and the URL; each
\* quiet flag of the tool is present exactly when the context is not interactive; the
\* tool is run once.
C24_ExternalCommand ==
    dl.reply = "external" =>
        /\ downloader \in ExternalTools
        /\ dl.cmd[1] = downloader
        /\ IF downloader = "curl" THEN Followed(dl.cmd, "-C", "-") ELSE Pos(dl.cmd, "-c") > 0
        /\ Followed(dl.cmd, IF downloader = "wget" THEN "-O" ELSE "-o", "FILENAME")
        /\ Pos(dl.cmd, "URL") > 0
        /\ \A q \in QuietFlags(downloader) : (Pos(dl.cmd, q) > 0) <=> ~dl.interactive
        /\ dl.requests = 1

\* curl run in a non-interactive context
C24_Witness ==
    /\ dl.reply = "external" /\ downloader = "curl" /\ ~dl.interactive
    /\ pc = "verify" /\ Pos(dl.cmd, "-s") > 0 /\ Pos(dl.cmd, "-S") > 0

\* ------------------------------------------------------------ C25
\* the ways the claim lists for resolution to fail
FailingReports ==
    {r \in Reports : \/ r.returncode /= 0
                     \/ ~r.open \/ ~r.close
                     \/ ~r.json
                     \/ r.install \in {"missing", "empty"}
                     \/ ~r.download_info
                     \/ ~r.url}

\* C25: each of the listed resolution failures makes resolve_package raise
\* RuntimeError; in a batch install_single_package then returns False, a single
\* package makes the process exit with code 1, and in both no transfer, verification,
\* installation or cleanup has been invoked for the package
C25_ResolutionFailure ==
    /\ \A r \in FailingReports : resolve_package(r) = "RuntimeError"
    /\ report \in FailingReports =>
          /\ calls = <<"resolve">>
          /\ dl = DlIdle /\ verdict = "none" /\ ~deleted
          /\ IF batch
             THEN /\ pc \in {"pkg_done", "loop", "exited"}
                  /\ pc = "pkg_done" => ~success
                  /\ pc /= "pkg_done" => ~results[Len(results)]
             ELSE pc = "exited" /\ exit_code = 1

C25_Witness ==
    /\ report \in FailingReports
    /\ report.returncode = 0 /\ ~report.url
    /\ batch /\ pc = "pkg_done" /\ idx = 2

\* ------------------------------------------------------------ the same flow twice
\* the flow of one package from the download on (main lines 512-531) runs on a
\* terminal for package 1; then the same flow runs with stdout redirected for package
\* 2, whose file starts as the file of package 1 did, against the same server replies
\* and the same failure events
InitPair ==
    /\ target = TRUE
    /\ batch = FALSE
    /\ packages = 1
    /\ \E f \in AllFiles :
          disk = [p \in 1..MaxPkgs |-> IF p <= 2 THEN f ELSE NoFile]
    /\ pc = "download"
    /\ idx = 1
    /\ downloader \in ExternalTools \cup {"python"}
    /\ file_hash \in ResolverHashes
    /\ dl = DlIdle
    /\ success = FALSE
    /\ successful_count = 0
    /\ failed_packages = <<>>
    /\ exit_code = -1
    /\ before = NoFile
    /\ truncated = FALSE
    /\ calls = <<"resolve">>
    /\ verdict = "none"
    /\ deleted = FALSE
    /\ results = <<>>
    /\ attempts = <<>>
    /\ exitVia = "none"
    /\ unit = UnitIdle
    /\ report = OkReport
    /\ first = NoRun

\* download_resumable, verify_file_hash, install_package and cleanup as main calls them
Flow ==
    \/ DlReplyPartial
    \/ DlReplyFull
    \/ DlReply416
    \/ DlRequestFails
    \/ DlReadChunk
    \/ DlEndOfStream
    \/ DlShortBody
    \/ DlReadFails
    \/ DlInterrupted
    \/ ExtDownloadOk
    \/ ExtDownloadFails
    \/ ExtInterrupted
    \/ Verify
    \/ InstallOk
    \/ InstallFails
    \/ CleanupOk
    \/ CleanupFails

\* sys.stdout.isatty() is True (lines 84, 173)
PairFirst == idx = 1 /\ Flow /\ dl'.interactive

\* the second flow meets what the first met: the same reply with the same body, the
\* same number of chunks before a failure or an interrupt, the same bytes left by the
\* external tool, the same result of pip and of os.remove
Follows ==
    /\ dl.reply /= "none" =>
          /\ dl.reply = first.dl.reply
          /\ dl.total_size = first.dl.total_size
          /\ dl.written \o dl.body = first.dl.written \o first.dl.body
    /\ IsPrefix(dl.written, first.dl.written)
    /\ dl.outcome /= "none" =>
          /\ dl.outcome = first.dl.outcome
          /\ dl.reply = first.dl.reply
          /\ dl.written = first.dl.written
          /\ dl.body = first.dl.body
    /\ (dl.reply = "external" /\ dl.outcome \in {"failed", "interrupted"}) =>
          Cur = first.file
    /\ (Called("install") /\ "install" \in {first.calls[i] : i \in 1..Len(first.calls)}) =>
          success = first.success
    /\ (Called("cleanup") /\ "cleanup" \in {first.calls[i] : i \in 1..Len(first.calls)}) =>
          deleted = first.deleted

\* the first flow has ended the process: remember how, and start the second
PairSecond ==
    /\ idx = 1
    /\ pc = "exited"
    /\ first' = [file |-> Cur, dl |-> dl, calls |-> calls, verdict |-> verdict,
                 success |-> success, deleted |-> deleted, exit_code |-> exit_code,
                 exitVia |-> exitVia]
    /\ idx' = 2
    /\ pc' = "download"
    /\ dl' = DlIdle
    /\ success' = FALSE
    /\ exit_code' = -1
    /\ exitVia' = "none"
    /\ before' = NoFile
    /\ truncated' = FALSE
    /\ calls' = <<"resolve">>
    /\ verdict' = "none"
    /\ deleted' = FALSE
    /\ UNCHANGED <<disk, target, batch, packages, unit, report, downloader, file_hash,
                   counters>>

\* sys.stdout.isatty() is False
PairTwin == idx = 2 /\ Flow /\ ~dl'.interactive /\ Follows'

NextPair ==
    \/ PairFirst
    \/ PairSecond
    \/ PairTwin

SpecPair == InitPair /\ [][NextPair]_vars

\* ------------------------------------------------------------ C22
\* C22: two runs of the flow that start from the same file and meet the same server
\* behaviour and the same failure events, one with stdout a terminal and one without,
\* end with the same file content, the same outcome and the same exit code; the
\* redirected run can always take the step the terminal run took
C22_Interactivity ==
    /\ (idx = 2 /\ pc /= "exited") => ENABLED PairTwin
    /\ (idx = 2 /\ pc = "exited") =>
          /\ Cur = first.file
          /\ exit_code = first.exit_code
          /\ exitVia = first.exitVia
          /\ calls = first.calls
          /\ verdict = first.verdict
          /\ success = first.success
          /\ dl.outcome = first.dl.outcome
          /\ first.dl.interactive /\ ~dl.interactive

C22_Witness ==
    /\ idx = 2 /\ pc = "exited"
    /\ dl.reply = "partial" /\ dl.outcome = "failed" /\ dl.written /= <<>>
    /\ first.dl.cr /\ ~dl.cr

\* ------------------------------------------------------------ C26
\* the specification without its flag: what follows "-e ", or what follows
\* "--editable" and the "=" or the white space after it
StrippedOfFlag(s) ==
    IF startswith(s, DashE) THEN strip(Drop(s, 3))
    ELSE LET rest == Drop(s, 10)
         IN  strip(IF rest /= <<>> /\ Head(rest) = "=" THEN Tail(rest) ELSE rest)

\* C26: is_editable_install is true exactly for specifications that start with "-e "
\* or "--editable"; for those install_single_package calls neither the resolver, the
\* transfer, the verifier nor cleanup, runs the installer once with "-e", the source
\* stripped of its flag and the pass-through options, and returns True exactly when
\* the installer exits with status 0
C26_Editable ==
    (unit.fn = "install_single_package" /\ unit.out /= "pending") =>
        /\ (unit.out = "editable") <=>
              (startswith(unit.spec, DashE) \/ startswith(unit.spec, DashDashEditable))
        /\ unit.out = "editable" =>
              /\ unit.called = {"installer"}
              /\ unit.cmd.flag = "-e"
              /\ unit.cmd.source = StrippedOfFlag(unit.spec)
              /\ unit.cmd.options = unit.install_args
              /\ unit.ret <=> (unit.status = 0)

\* ------------------------------------------------------------ C27, C28, C29
ParseDone == unit.fn = "parse_requirements_file" /\ unit.out = "done"
TopLines == unit.fs[TopName].lines
\* the same directory with other lines in the top-level file
WithTop(lines) == [unit.fs EXCEPT ![TopName] = [exists |-> TRUE, lines |-> lines]]
ParseOf(lines) == parse_requirements_file(WithTop(lines), TopName, 1)
IncludeLine(n) == <<"-", "r", " ">> \o n
Plain == {<<"p">>, <<"q">>, <<"x">>}

\* C27: the packages and preserved options come in file order: parsing a file gives
\* what parsing its first lines gives followed by what parsing the rest gives, a
\* package line gives that package, a "-r" line gives what the nested file gives, a
\* "-r" line naming a missing file gives nothing but a warning, and a missing
\* top-level file raises RuntimeError "not found"
C27_FileOrder ==
    ParseDone =>
        /\ ~unit.fs[TopName].exists => unit.parsed.raised = "not_found"
        /\ unit.parsed.raised = "none" =>
              /\ \A i \in 0..Len(TopLines) :
                    LET a == ParseOf(SubSeq(TopLines, 1, i))
                        b == ParseOf(SubSeq(TopLines, i + 1, Len(TopLines)))
                    IN  /\ a.raised = "none" /\ b.raised = "none"
                        /\ unit.parsed.packages = a.packages \o b.packages
                        /\ unit.parsed.pip_options = a.pip_options \o b.pip_options
              /\ (Len(TopLines) = 1 /\ TopLines[1] \in Plain) =>
                    unit.parsed.packages = TopLines
              /\ (TopLines = <<IncludeLine(NestedName)>> /\ unit.fs[NestedName].exists) =>
                    LET n == parse_requirements_file(unit.fs, NestedName, 1)
                    IN  /\ unit.parsed.packages = n.packages
                        /\ unit.parsed.pip_options = n.pip_options
              /\ TopLines = <<IncludeLine(<<"m">>)>> =>
                    /\ unit.parsed.packages = <<>>
                    /\ unit.parsed.warnings = <<<<"m">>>>

C27_Witness ==
    /\ ParseDone
    /\ TopLines = <<<<"p">>, IncludeLine(NestedName), <<"q">>>>
    /\ unit.parsed.packages = <<<<"p">>, <<"x">>, <<"q">>>>
    /\ unit.parsed.pip_options /= <<>>

\* the text of a line without its inline comment
Body(raw) == comment_cut(raw)
IsRequirementLine(raw) ==
    startswith(Body(raw), <<"-", "r">>) \/ startswith(Body(raw), DashDashRequirement)

\* C28: a file of one line: a blank line and a line starting with "#" give nothing;
\* otherwise, with the text after " #" removed, an editable line goes to packages
\* unchanged, a preserved option goes to pip_options only, any other line starting
\* with "-" is dropped, and every other line goes to packages
C28_Classification ==
    (ParseDone /\ Len(TopLines) = 1 /\ ~IsRequirementLine(TopLines[1])) =>
        LET raw == TopLines[1]
            body == Body(raw)
            r == unit.parsed
        IN  /\ r.raised = "none"
            /\ IF strip(raw) = <<>> \/ startswith(strip(raw), <<"#">>)
               THEN r.packages = <<>> /\ r.pip_options = <<>>
               ELSE IF startswith(body, DashE) \/ startswith(body, DashDashEditable)
               THEN r.packages = <<body>> /\ r.pip_options = <<>>
               ELSE IF \E opt \in PRESERVED_OPTIONS : startswith(body, opt)
               THEN r.packages = <<>> /\ r.pip_options = <<body>>
               ELSE IF startswith(body, <<"-">>)
               THEN r.packages = <<>> /\ r.pip_options = <<>>
               ELSE r.packages = <<body>> /\ r.pip_options = <<>>

\* the chain of "-r" lines leads from the top-level file back to a file on the chain
Includes(n, m) ==
    unit.fs[n].exists /\ unit.fs[m].exists
        /\ \E i \in 1..Len(unit.fs[n].lines) : unit.fs[n].lines[i] = IncludeLine(m)
Cyclic ==
    \/ Includes(TopName, TopName)
    \/ Includes(TopName, NestedName)
          /\ (Includes(NestedName, NestedName) \/ Includes(NestedName, TopName))

\* C29: a requirements file whose "-r" chain leads back to itself never gives a
\* package list: every level enters the file again until the call raises
C29_NoCycleProtection ==
    (ParseDone /\ Cyclic) => unit.parsed.raised = "error_reading"

C29_Witness ==
    /\ ParseDone
    /\ Includes(TopName, NestedName) /\ Includes(NestedName, TopName)
    /\ ~Includes(TopName, TopName)
    /\ unit.parsed.raised = "error_reading"

\* ------------------------------------------------------------ repeated download, any server reply
\* download_with_python invoked again and again on a file that starts absent or as a
\* prefix of Remote; the server serves Remote unchanged and answers a Range request
\* with 206, with 416, or with the whole resource; requests and reads may fail or be
\* interrupted at any point
InitPrefix ==
    /\ InitResume
    /\ IsPrefix(Cur.data, Remote)

NextPrefix ==
    \/ DlReplyPartial
    \/ DlReplyFull
    \/ DlReply416
    \/ DlRequestFails
    \/ DlReadChunk
    \/ DlEndOfStream
    \/ DlShortBody
    \/ DlReadFails
    \/ DlInterrupted
    \/ Reinvoke

SpecPrefix == InitPrefix /\ [][NextPrefix]_vars

\* ------------------------------------------------------------ C30
\* C30: starting from an absent file or a prefix of the remote content, with a server
\* that serves unchanging content, the file on disk is a prefix of the remote content
\* in every state reached by any sequence of download_with_python invocations,
\* whether they succeed, fail or are interrupted
C30_PrefixInvariant == \A p \in 1..MaxPkgs : IsPrefix(disk[p].data, Remote)

\* a failed and a completed invocation, then a server that ignores the Range: the file
\* was truncated and is being written again
C30_Witness ==
    /\ results = <<FALSE, TRUE>>
    /\ pc = "reading" /\ truncated /\ dl.written /= <<>>
    /\ Cur.data = dl.written

\* ------------------------------------------------------------ the same command run again
\* main run again and again with the built-in backend, the resolver reporting the
\* digest of the remote content, and a server that honours Range requests and answers
\* every request; results remembers how the earlier runs ended
InitAgain ==
    /\ target = TRUE
    /\ batch \in BOOLEAN
    /\ packages \in (IF batch THEN 1..MaxPkgs ELSE {1})
    /\ disk \in [1..MaxPkgs -> AllFiles]
    /\ \A p \in 1..MaxPkgs :
          /\ p > packages => disk[p] = NoFile
          /\ batch => disk[p] \in BatchInitFiles
    /\ InitLocals
    /\ unit = UnitIdle
    /\ report = NoReport
    /\ first = NoRun

\* no external tool is installed
AgStart == MainStart /\ downloader' = "python"

AgResolve == ResolveOk /\ file_hash' = GoodHash

\* the operator runs the same command again; only the file system is kept
RunAgain ==
    /\ pc = "exited"
    /\ Len(results) <= MaxHistory
    /\ results' = (IF batch THEN results ELSE Append(results, exit_code = 0))
    /\ pc' = "start"
    /\ idx' = 1
    /\ downloader' = "none"
    /\ file_hash' = NoHash
    /\ dl' = DlIdle
    /\ success' = FALSE
    /\ successful_count' = 0
    /\ failed_packages' = <<>>
    /\ exit_code' = -1
    /\ before' = NoFile
    /\ truncated' = FALSE
    /\ calls' = <<>>
    /\ verdict' = "none"
    /\ deleted' = FALSE
    /\ attempts' = <<>>
    /\ exitVia' = "none"
    /\ report' = NoReport
    /\ UNCHANGED <<disk, inputs>>

NextAgain ==
    \/ AgStart
    \/ BatchNext
    \/ BatchRecord
    \/ Summary
    \/ AgResolve
    \/ DlReplyPartial
    \/ RsReplyFull
    \/ DlReply416
    \/ DlReadChunk
    \/ DlEndOfStream
    \/ Verify
    \/ InstallOk
    \/ InstallFails
    \/ CleanupOk
    \/ CleanupFails
    \/ RunAgain

SpecAgain == InitAgain /\ [][NextAgain]_vars

\* ------------------------------------------------------------ C31
\* at least the remote total size, but other content
CorruptFull(f) == f.exists /\ Len(f.data) >= RemoteLen /\ f.data /= Remote

\* a corrupt full-length file is left as it is by every step
C31_Untouched ==
    \A p \in 1..MaxPkgs : CorruptFull(disk[p]) => disk'[p] = disk[p]

\* C31: when the target file has at least the remote total size but other content,
\* every invocation of the built-in backend against a range-honouring server gets 416,
\* returns success and leaves the file unchanged, verification with the correct digest
\* reports a mismatch on every run, and the package is never installed
C31_NeverRepaired ==
    /\ [][C31_Untouched]_vars
    /\ []((Called("download") /\ CorruptFull(before)) =>
            /\ dl.reply = "416" /\ dl.outcome = "complete"
            /\ pc /= "download" /\ pc /= "reading"
            /\ pc \in {"loop", "exited"} \/ Cur = before)
    /\ []((Called("verify") /\ CorruptFull(before)) =>
            /\ verdict = "mismatch"
            /\ ~Called("install")
            /\ IF batch
               THEN /\ pc \in {"pkg_done", "loop", "exited"}
                    /\ pc = "pkg_done" => ~success
                    /\ pc /= "pkg_done" => ~results[Len(results)]
               ELSE pc = "exited" /\ exit_code = 1)

\* the third run of a single package ends like the two before it
C31_Witness ==
    /\ ~batch /\ results = <<FALSE, FALSE>>
    /\ pc = "exited" /\ exit_code = 1
    /\ CorruptFull(Cur) /\ Cur = before
    /\ dl.reply = "416" /\ verdict = "mismatch"

\* ------------------------------------------------------------ C32
Accounted == successful_count + Len(failed_packages)

\* the counters change only when a result is recorded, by one, or when main starts anew
C32_CountedOnce ==
    (batch /\ successful_count' + Len(failed_packages') /= Accounted) =>
        \/ /\ pc = "pkg_done"
           /\ successful_count' + Len(failed_packages') = Accounted + 1
           /\ IF success
              THEN successful_count' = successful_count + 1
              ELSE failed_packages' = Append(failed_packages, idx)
        \/ pc = "exited" /\ pc' = "start"

\* C32: batch accounting.  After each package of the loop, successful_count plus the
\* length of failed_packages is the number of packages processed so far;
\* failed_packages holds exactly the packages whose result was a failure, in the order
\* they were attempted and none twice; at the summary the sum is the length of the
\* package list
C32_BatchAccounting ==
    /\ [](batch =>
            /\ Accounted = Len(results)
            /\ pc = "loop" => Accounted = idx - 1
            /\ pc = "pkg_done" => Accounted = idx - 1
            /\ successful_count = Cardinality({i \in 1..Len(results) : results[i]})
            /\ \A j \in 1..Len(failed_packages) :
                  /\ failed_packages[j] \in 1..Len(results)
                  /\ ~results[failed_packages[j]]
                  /\ \A i \in 1..(j - 1) : failed_packages[i] < failed_packages[j]
            /\ \A i \in 1..Len(results) :
                  ~results[i] => \E j \in 1..Len(failed_packages) : failed_packages[j] = i
            /\ (pc = "exited" /\ exitVia = "summary") => Accounted = packages)
    /\ [][C32_CountedOnce]_vars

\* both packages of a batch failed and the summary was printed
C32_Witness ==
    /\ batch /\ packages = 2
    /\ pc = "exited" /\ exitVia = "summary"
    /\ failed_packages = <<1, 2>> /\ successful_count = 0

\* ------------------------------------------------------------ main on a requirements file
\* main started with -r on a file of up to MaxPkgs lines: the package list is what
\* parse_requirements_file gives for it (line 463); no package has a file on disk yet
FileLines ==
    {<<>>,
     <<"#", "c">>,
     <<"#", " ", "a", " ", "#", "b">>,
     <<"-", "-", "p", "r", "e">>,
     <<"-", "x">>,
     <<"p">>}
RequirementFiles ==
    {[exists |-> FALSE, lines |-> <<>>]}
        \cup {[exists |-> TRUE, lines |-> c] : c \in SeqsUpTo(MaxPkgs, FileLines)}

InitFile ==
    /\ target = TRUE
    /\ batch = TRUE
    /\ \E top \in RequirementFiles :
          LET fs == [NoFS EXCEPT ![TopName] = top]
          IN  unit = [UnitIdle EXCEPT !.fn = "main", !.fs = fs, !.out = "done",
                                      !.parsed = parse_requirements_file(fs, TopName, 1)]
    /\ packages = Len(unit.parsed.packages)
    /\ disk = [p \in 1..MaxPkgs |-> NoFile]
    /\ InitLocals
    /\ report = NoReport
    /\ first = NoRun

\* lines 456-467 when parse_requirements_file returned
FileStart == unit.parsed.raised = "none" /\ MainStart

\* lines 463 and 535-537: parse_requirements_file raised RuntimeError, sys.exit(1)
FileFails ==
    /\ pc = "start"
    /\ unit.parsed.raised /= "none"
    /\ \E present \in SUBSET ExternalTools : downloader' = check_downloader(present)
    /\ Exit(1, "requirements")
    /\ UNCHANGED <<disk, args, idx, file_hash, dl, success, counters, pkghist>>

NextFile ==
    \/ FileStart
    \/ FileFails
    \/ BatchNext
    \/ BatchRecord
    \/ Summary
    \/ ResolveOk
    \/ ResolveFails
    \/ ResolveUnexpected
    \/ DlReplyFull
    \/ DlRequestFails
    \/ DlReadChunk
    \/ DlEndOfStream
    \/ DlShortBody
    \/ DlReadFails
    \/ DlInterrupted
    \/ ExtDownloadOk
    \/ ExtDownloadFails
    \/ ExtInterrupted
    \/ Verify
    \/ InstallOk
    \/ InstallFails
    \/ CleanupOk
    \/ CleanupFails
    \/ MainInterrupted

SpecFile == InitFile /\ [][NextFile]_vars

\* ------------------------------------------------------------ C33
\* the file is empty or holds only blank lines, comments and options
OnlyCommentsAndOptions(f) ==
    /\ f.exists
    /\ \A i \in 1..Len(f.lines) :
          LET s == strip(f.lines[i])
          IN  \/ s = <<>>
              \/ startswith(s, <<"#">>)
              \/ startswith(s, <<"-">>) /\ ~startswith(s, DashE)
                    /\ ~startswith(s, DashDashEditable) /\ ~startswith(s, <<"-", "r">>)

\* main warned and exited with 0 before the loop: no package was started, nothing
\* was resolved, transferred or installed
EndedWithoutPackages ==
    /\ pc \in {"start", "exited"}
    /\ pc = "exited" => (exit_code = 0 /\ exitVia = "no_packages")
    /\ attempts = <<>> /\ calls = <<>> /\ dl = DlIdle

\* C33: a requirements file that is empty or holds only comments and options yields
\* no package and makes main exit with code 0 after the warning, without calling
\* install_single_package, a transfer or the installer
C33_NoPackages ==
    (unit.fn = "main" /\ OnlyCommentsAndOptions(unit.fs[TopName])) =>
        /\ unit.parsed.raised = "none" /\ unit.parsed.packages = <<>>
        /\ EndedWithoutPackages

\* the part of C33 that holds: whenever parse_requirements_file returns an empty
\* package list, main exits with 0 before the loop
C33_EmptyListExits ==
    (unit.fn = "main" /\ unit.parsed.raised = "none" /\ unit.parsed.packages = <<>>) =>
        EndedWithoutPackages

\* ------------------------------------------------------------ C34
\* C34: byte-count invariant of download_with_python.  From the moment the file is
\* open and after every chunk written, the counter `downloaded` is the length of the
\* target file, and it is the starting position plus the bytes written by this call:
\* for a fresh download, a resume in append mode, an existing empty file, and a
\* restart in write mode after the server ignored the Range
C34_ByteCount ==
    pc = "reading" =>
        /\ dl.downloaded = Len(Cur.data)
        /\ dl.downloaded = dl.resume_pos + Len(dl.written)
        /\ dl.mode = "ab" => dl.resume_pos = Len(before.data)
        /\ dl.mode = "wb" => dl.resume_pos = 0

\* a restart: the server ignored the Range, the file was truncated, a chunk is written
C34_Witness ==
    /\ pc = "reading" /\ dl.mode = "wb" /\ dl.range
    /\ Len(before.data) > 0 /\ truncated
    /\ dl.written /= <<>> /\ dl.downloaded = Len(dl.written)

====
